---------------------------- MODULE Spec2Model ----------------------------
(***************************************************************************)
(* Model of lang/typescript/hooks/typescript-on-save.ts: the save-time     *)
(* verification hook.  One process run is modelled from main() to its      *)
(* exit: mode dispatch, the dependency preflight with its cache, the       *)
(* per-target pipeline processTarget, and the CLI / interactive / hook     *)
(* response rendering with the exit code.                                  *)
(*                                                                         *)
(* Text is modelled structurally so that the string operations of the code *)
(* are computed, not assumed:                                              *)
(*   - a path is a sequence of characters (one-character strings);         *)
(*   - the standard-input payload is a sequence of JSON lexemes, parsed by *)
(*     a recursive-descent parser (JSONParse);                             *)
(*   - a tool's output is the array its split('\n') yields: a non-empty    *)
(*     sequence of lines, a line being a sequence of words.                *)
(***************************************************************************)
EXTENDS Integers, Sequences, FiniteSets, TLC

(***************************************************************************)
(* Bounds of the model                                                     *)
(***************************************************************************)
MaxArgs == 2        \* longest command-line argument list
MaxOutLines == 1    \* longest tool output, in lines
MaxChunks == 2      \* most 'data' events the payload is split into
MaxReportLines == 6 \* longest type-checker output of the aggregation runs

(***************************************************************************)
(* Paths                                                                   *)
(***************************************************************************)
P_a_ts == <<"a", ".", "t", "s">>
P_b_tsx == <<"b", ".", "t", "s", "x">>
P_c_svelte == <<"c", ".", "s", "v", "e", "l", "t", "e">>
P_d_js == <<"d", ".", "j", "s">>
P_e_jsx == <<"e", ".", "j", "s", "x">>
P_x_png == <<"x", ".", "p", "n", "g">>
P_m_mts == <<"m", ".", "m", "t", "s">>
P_ts == <<"t", "s">>
P_gone_ts == <<"g", "o", "n", "e", ".", "t", "s">>
P_gone_png == <<"g", "o", "n", "e", ".", "p", "n", "g">>
P_lib_ts == <<"l", "i", "b", ".", "t", "s">>
P_src == <<"s", "r", "c">>
P_dot == <<".">>

Kinds == {"file", "dir", "none"}

\* the filesystem of a run: regular files with each kind of suffix, two
\* directories (one of them named like a source file) and two missing paths
Files == {P_a_ts, P_b_tsx, P_c_svelte, P_d_js, P_e_jsx, P_x_png, P_m_mts, P_ts}
Dirs == {P_lib_ts, P_src, P_dot}
Missing == {P_gone_ts, P_gone_png}
Paths == Files \cup Dirs \cup Missing
FileSystem ==
    [ p \in Paths |-> IF p \in Files THEN "file"
                      ELSE IF p \in Dirs THEN "dir" ELSE "none" ]

\* paths a hook request may name
HookPaths == Paths \ {P_dot}
\* paths given on a command line of several arguments
CliPaths == {P_a_ts, P_x_png, P_gone_ts}

EndsWith(s, suf) ==
    /\ Len(s) >= Len(suf)
    /\ SubSeq(s, Len(s) - Len(suf) + 1, Len(s)) = suf

\* /\.(ts|tsx|js|jsx|svelte)$/.test(filePath)
Suffixes ==
    { <<"t", "s">>, <<"t", "s", "x">>, <<"j", "s">>, <<"j", "s", "x">>,
      <<"s", "v", "e", "l", "t", "e">> }

isTypeScriptOrSvelteFile_NoDot(filePath) ==
    \E suf \in Suffixes : EndsWith(filePath, suf)

isTypeScriptOrSvelteFile_NoJsx(filePath) ==
    \E suf \in Suffixes \ { <<"j", "s", "x">> } : EndsWith(filePath, <<".">> \o suf)

isTypeScriptOrSvelteFile(filePath) ==
    \E suf \in Suffixes : EndsWith(filePath, <<".">> \o suf)


(***************************************************************************)
(* JSON text and JavaScript values                                         *)
(*                                                                         *)
(* A lexeme is [k, v]: k its kind, v its spelling.  Strings that the code  *)
(* only compares as a whole (tool names, keys) are one-symbol sequences.   *)
(***************************************************************************)
LB == [k |-> "punct", v |-> <<"{">>]
RB == [k |-> "punct", v |-> <<"}">>]
Colon == [k |-> "punct", v |-> <<":">>]
Comma == [k |-> "punct", v |-> <<",">>]
TNull == [k |-> "lit", v |-> <<"null">>]
TTrue == [k |-> "lit", v |-> <<"true">>]
TStr(chars) == [k |-> "str", v |-> chars]
TNum(digits) == [k |-> "num", v |-> digits]

\* a JavaScript value: t its type, s the spelling of a string / number /
\* boolean, m the members of an object in source order
JV(t, s, m) == [t |-> t, s |-> s, m |-> m]
Undefined == JV("undef", <<>>, <<>>)
JNull == JV("null", <<>>, <<>>)
JStr(chars) == JV("str", chars, <<>>)
JNum(digits) == JV("num", digits, <<>>)
JBool(word) == JV("bool", word, <<>>)
JObj(members) == JV("obj", <<>>, members)

ParseFail == [ok |-> FALSE, val |-> Undefined, next |-> 0]

RECURSIVE ParseValue(_, _)
RECURSIVE ParseMembers(_, _, _)

\* value ::= null | true | number | string | object
ParseValue(toks, i) ==
    IF i > Len(toks) THEN ParseFail
    ELSE LET t == toks[i] IN
         CASE t.k = "lit" ->
                [ok |-> TRUE,
                 val |-> IF t = TNull THEN JNull ELSE JBool(t.v),
                 next |-> i + 1]
           [] t.k = "num" -> [ok |-> TRUE, val |-> JNum(t.v), next |-> i + 1]
           [] t.k = "str" -> [ok |-> TRUE, val |-> JStr(t.v), next |-> i + 1]
           [] t = LB ->
                IF i + 1 <= Len(toks) /\ toks[i + 1] = RB
                THEN [ok |-> TRUE, val |-> JObj(<<>>), next |-> i + 2]
                ELSE ParseMembers(toks, i + 1, <<>>)
           [] OTHER -> ParseFail

\* members ::= string ":" value ( "," members | "}" )
ParseMembers(toks, i, acc) ==
    IF i + 1 > Len(toks) \/ toks[i].k # "str" \/ toks[i + 1] # Colon
    THEN ParseFail
    ELSE LET r == ParseValue(toks, i + 2) IN
         IF ~r.ok \/ r.next > Len(toks) THEN ParseFail
         ELSE LET acc2 == Append(acc, [key |-> toks[i].v, val |-> r.val]) IN
              CASE toks[r.next] = RB ->
                     [ok |-> TRUE, val |-> JObj(acc2), next |-> r.next + 1]
                [] toks[r.next] = Comma -> ParseMembers(toks, r.next + 1, acc2)
                [] OTHER -> ParseFail

\* JSON.parse(text): the whole text must be one value
JSONParse(text) ==
    LET r == ParseValue(text, 1) IN
    IF r.ok /\ r.next = Len(text) + 1
    THEN [ok |-> TRUE, val |-> r.val]
    ELSE [ok |-> FALSE, val |-> Undefined]

\* v.key throws a TypeError on null and undefined
PropThrows(v) == v.t \in {"null", "undef"}

\* v.key for a value that is not null or undefined: the last member of that
\* name of an object, undefined for anything else
GetProp(v, key) ==
    LET idx == IF v.t = "obj"
               THEN { i \in 1..Len(v.m) : v.m[i].key = key }
               ELSE {} IN
    IF idx = {} THEN Undefined
    ELSE v.m[CHOOSE i \in idx : \A j \in idx : j <= i].val

\* v?.key
GetPropOpt(v, key) == IF PropThrows(v) THEN Undefined ELSE GetProp(v, key)

Truthy_EmptyString(v) ==
    CASE v.t = "str" -> TRUE
      [] v.t = "num" -> v.s # <<"0">>
      [] v.t = "bool" -> v.s = <<"true">>
      [] v.t = "obj" -> TRUE
      [] OTHER -> FALSE

\* if (v)
Truthy(v) ==
    CASE v.t = "str" -> v.s # <<>>
      [] v.t = "num" -> v.s # <<"0">>
      [] v.t = "bool" -> v.s = <<"true">>
      [] v.t = "obj" -> TRUE
      [] OTHER -> FALSE

\* String(v), as a regular expression's test() coerces its argument
ToStr(v) ==
    CASE v.t \in {"str", "num", "bool"} -> v.s
      [] v.t = "obj" -> <<"[object Object]">>
      [] v.t = "null" -> <<"null">>
      [] OTHER -> <<"undefined">>

K_tool_name == <<"tool_name">>
K_tool_input == <<"tool_input">>
K_file_path == <<"file_path">>

EditTools == { <<"Write">>, <<"Edit">>, <<"MultiEdit">> }
IsEditTool_AnyCase(toolName) ==
    toolName.t = "str" /\ toolName.s \in EditTools \cup { <<"write">> }

\* toolName === 'Write' || toolName === 'Edit' || toolName === 'MultiEdit'
IsEditTool(toolName) == toolName.t = "str" /\ toolName.s \in EditTools

(***************************************************************************)
(* Tool output and its parsing                                             *)
(*                                                                         *)
(* A text is what split('\n') yields: a non-empty sequence of lines; the   *)
(* empty string is the text of one empty line.  A line is a sequence of    *)
(* lexemes (words and punctuation).                                        *)
(***************************************************************************)
EmptyLine == <<>>
EmptyText == <<EmptyLine>>

\* !text
IsEmptyText(text) == text = EmptyText

\* lines.join('\n'), as a text
JoinLines(ls) == IF ls = <<>> THEN EmptyText ELSE ls

RECURSIVE Flatten(_)
Flatten(ss) == IF ss = <<>> THEN <<>> ELSE Head(ss) \o Flatten(Tail(ss))

RECURSIVE SelectIdx(_, _, _)
\* the indices i of 1..n, ascending, for which Keep[i]
SelectIdx(Keep, i, n) ==
    IF i > n THEN <<>>
    ELSE (IF Keep[i] THEN <<i>> ELSE <<>>) \o SelectIdx(Keep, i + 1, n)

\* seq.slice(0, n)
Slice0(seq, n) == SubSeq(seq, 1, IF Len(seq) < n THEN Len(seq) ELSE n)

\* (text.match(/<marker>/g) || []).length, at lexeme granularity
CountMarker(text, marker) ==
    Len(Flatten([ i \in 1..Len(text) |->
                    SelectSeq(text[i], LAMBDA w : w = marker) ]))

\* line.startsWith('Error:')
StartsWithError(line) == Len(line) >= 1 /\ line[1] = "Error:"

MaxWindows == 5
MaxEslintLines == 10

\* the context of the error line at index i: 1 line before, 2 lines after
ErrorWindow_OneAfter(arr, i) ==
    (IF i > 1 THEN <<arr[i - 1]>> ELSE <<>>)
    \o <<arr[i]>>
    \o (IF i < Len(arr) THEN <<arr[i + 1]>> ELSE <<>>)

ErrorWindow(arr, i) ==
    (IF i > 1 THEN <<arr[i - 1]>> ELSE <<>>)
    \o <<arr[i]>>
    \o (IF i < Len(arr) THEN <<arr[i + 1]>> ELSE <<>>)
    \o (IF i < Len(arr) - 1 THEN <<arr[i + 2]>> ELSE <<>>)

RECURSIVE JoinWindows(_)
\* windows.join('\n--\n')
JoinWindows(ws) ==
    IF ws = <<>> THEN <<>>
    ELSE IF Len(ws) = 1 THEN Head(ws)
    ELSE Head(ws) \o << <<"--">> >> \o JoinWindows(Tail(ws))

\* typeErrorLines of processTarget
TypeErrorLines(text) ==
    LET starts == SelectIdx([ i \in 1..Len(text) |-> StartsWithError(text[i]) ],
                            1, Len(text))
        windows == [ k \in 1..Len(starts) |-> ErrorWindow(text, starts[k]) ]
    IN JoinLines(JoinWindows(Slice0(windows, MaxWindows)))

Cross == "HEAVY_X"     \* the U+2716 mark of ESLint's summary line
Numerals == {"0", "1", "2"}
ParseInt(w) == CASE w = "0" -> 0 [] w = "1" -> 1 [] w = "2" -> 2

\* line.includes('problem')
IncludesProblem(line) == \E i \in 1..Len(line) : line[i] \in {"problem", "problems"}

\* the positions at which the summary pattern
\*   X <n> problem(s) ( <n> error(s) , <n> warning(s) )
\* matches in the line
SummaryMatches(line) ==
    { i \in 1..(Len(line) - 9) :
        /\ line[i] = Cross
        /\ line[i + 1] \in Numerals
        /\ line[i + 2] \in {"problem", "problems"}
        /\ line[i + 3] = "("
        /\ line[i + 4] \in Numerals
        /\ line[i + 5] \in {"error", "errors"}
        /\ line[i + 6] = ","
        /\ line[i + 7] \in Numerals
        /\ line[i + 8] \in {"warning", "warnings"}
        /\ line[i + 9] = ")" }

\* the error and warning counts read from ESLint's output after a failure:
\* the first line that includes 'problem' decides
EslintCounts(text) ==
    LET cand == { i \in 1..Len(text) : IncludesProblem(text[i]) } IN
    IF cand = {} THEN [errors |-> 0, warnings |-> 0]
    ELSE LET line == text[CHOOSE i \in cand : \A j \in cand : i <= j]
             ms == SummaryMatches(line) IN
         IF ms = {} THEN [errors |-> 0, warnings |-> 0]
         ELSE LET m == CHOOSE i \in ms : \A j \in ms : i <= j IN
              [errors |-> ParseInt(line[m + 4]),
               warnings |-> ParseInt(line[m + 7])]

\* eslintLines of processTarget: non-blank lines that do not start with the
\* cross, at most the first 10
EslintLines(text) ==
    JoinLines(Slice0(SelectSeq(text,
        LAMBDA line : line # EmptyLine /\ line[1] # Cross), MaxEslintLines))

RECURSIVE SeqsUpTo(_, _)
\* the sequences over S of length 1..n
SeqsUpTo(S, n) ==
    IF n <= 1 THEN { <<x>> : x \in S }
    ELSE LET shorter == SeqsUpTo(S, n - 1) IN
         shorter \cup { Append(q, x) : q \in shorter, x \in S }

TcLines == { <<"Error:", "e">>, <<"at", "Error:", "m">>, <<"Warning:", "w">>,
             EmptyLine }
EsSummary == <<Cross, "2", "problems", "(", "2", "errors", ",", "0", "warnings", ")">>
EsLines == { EsSummary, <<"1:1", "error", "no-var">>, <<"problem", "matcher">>,
             EmptyLine }
TcTexts == SeqsUpTo(TcLines, MaxOutLines)
EsTexts == SeqsUpTo(EsLines, MaxOutLines)

(***************************************************************************)
(* Records of the program                                                  *)
(***************************************************************************)
\* { hasErrors, message? } of checkDependencies; message names the tool
DepResult(hasErr, msg) == [hasErrors |-> hasErr, message |-> msg]
NoCache == [set |-> FALSE, timestamp |-> 0, result |-> DepResult(FALSE, "")]

CACHE_DURATION == 5     \* 5 * 60 * 1000 ms, in minutes

\* new Date().toISOString().split('T')[0]: the calendar day of a time
MinutesPerDay == 1440
Day(t) == t \div MinutesPerDay

\* svelte_check / eslint member of a HookResponse
ToolRec(exit, errs, warns, hasOut, out) ==
    [present |-> TRUE, exit_code |-> exit, error_count |-> errs,
     warning_count |-> warns, hasOutput |-> hasOut, output |-> out]
NoToolRec ==
    [present |-> FALSE, exit_code |-> 0, error_count |-> 0,
     warning_count |-> 0, hasOutput |-> FALSE, output |-> EmptyText]

\* a part of a reason string
Part(p, n, text) == [p |-> p, n |-> n, text |-> text]

\* HookResponse; an absent member is Undefined / "absent" / "" / <<>>
Response_Allow(target, tool, success, skipped, reason, decision, error, sc, es) ==
    [target |-> target, tool |-> tool, success |-> success,
     skipped |-> skipped, reason |-> reason,
     decision |-> IF success = "true" THEN "allow" ELSE decision,
     error |-> error, svelte_check |-> sc, eslint |-> es]

Response(target, tool, success, skipped, reason, decision, error, sc, es) ==
    [target |-> target, tool |-> tool, success |-> success,
     skipped |-> skipped, reason |-> reason, decision |-> decision,
     error |-> error, svelte_check |-> sc, eslint |-> es]
NoResponse ==
    Response(Undefined, Undefined, "absent", FALSE, <<>>, "absent", "",
             NoToolRec, NoToolRec)

ErrorDoc(msg) ==
    Response(Undefined, Undefined, "absent", FALSE, <<>>, "absent", msg,
             NoToolRec, NoToolRec)
SkipDoc(target, tool, why) ==
    Response(target, tool, "absent", TRUE, <<Part(why, 0, EmptyText)>>,
             "absent", "", NoToolRec, NoToolRec)
FailDoc(target, msg) ==
    Response(target, Undefined, "false", FALSE, <<>>, "absent", msg,
             NoToolRec, NoToolRec)

MissingDepsError == "Missing required dependencies. See error message above."
RunFailedError == "Failed to run svelte-check. Dependencies may be missing."

\* the locals of one processTarget call
NewFrame(t) ==
    [target |-> t, depCheck |-> DepResult(FALSE, ""), isSingleFile |-> FALSE,
     svelteCheckExitCode |-> 0, svelteCheckOutput |-> EmptyText,
     eslintExitCode |-> 0, eslintOutput |-> EmptyText,
     eslintErrorCount |-> 0, eslintWarningCount |-> 0]

\* what was written or started, in order
Stdout(doc, pretty) ==
    [ch |-> "stdout", what |-> "", n |-> 0, doc |-> doc, pretty |-> pretty,
     quiet |-> FALSE]
Stderr(msg, n) ==
    [ch |-> "stderr", what |-> msg, n |-> n, doc |-> NoResponse, pretty |-> FALSE,
     quiet |-> FALSE]
\* a process run by execSync with its output captured; n is 0 when execSync
\* returned and 1 when it threw, quiet tells that it threw and left nothing
\* on its standard output
Run(cmd, threw, out) ==
    [ch |-> "spawn", what |-> cmd, n |-> IF threw THEN 1 ELSE 0,
     doc |-> NoResponse, pretty |-> FALSE, quiet |-> threw /\ out = EmptyText]
\* a process run by execSync with stdio: 'ignore'
Spawn(cmd, threw) ==
    [ch |-> "spawn", what |-> cmd, n |-> IF threw THEN 1 ELSE 0,
     doc |-> NoResponse, pretty |-> FALSE, quiet |-> FALSE]

\* a line of LOG_FILE; errors and warnings are the numbers in its message
LN(level, msg, errors, warnings) ==
    [level |-> level, msg |-> msg, errors |-> errors, warnings |-> warnings]
L(level, msg) == LN(level, msg, 0, 0)

NotExited == -1
NoStatus == -1

(***************************************************************************)
(* Inputs of a run                                                         *)
(***************************************************************************)
Request(toolTok, fpTok) ==
    <<LB, TStr(K_tool_name), Colon, toolTok, Comma, TStr(K_tool_input), Colon,
      LB, TStr(K_file_path), Colon, fpTok, RB, RB>>

WriteTok == TStr(<<"Write">>)

Payloads ==
    \* well-formed edit requests on every path, and an edit by each tool
    { Request(WriteTok, TStr(p)) : p \in HookPaths }
    \cup { Request(TStr(t), TStr(p)) : t \in EditTools, p \in {P_a_ts, P_x_png} }
    \* other tools, other spellings, a tool name that is no string
    \cup { Request(TStr(<<"Read">>), TStr(p)) : p \in {P_a_ts, P_x_png, P_gone_ts} }
    \cup { Request(TStr(<<"write">>), TStr(P_a_ts)),
           Request(TNum(<<"1">>), TStr(P_a_ts)),
           Request(TNull, TStr(P_a_ts)) }
    \* file_path empty, null, a number
    \cup { Request(WriteTok, TStr(<<>>)), Request(WriteTok, TNull),
           Request(WriteTok, TNum(<<"1">>)), Request(WriteTok, TNum(<<"0">>)) }
    \cup { Request(TStr(<<"Edit">>), TNull),
           Request(TStr(<<"MultiEdit">>), TStr(<<>>)) }
    \* members missing
    \cup { <<LB, RB>>,
           <<LB, TStr(K_tool_name), Colon, WriteTok, RB>>,
           <<LB, TStr(K_tool_name), Colon, WriteTok, Comma,
             TStr(K_tool_input), Colon, TNull, RB>>,
           <<LB, TStr(K_tool_name), Colon, WriteTok, Comma,
             TStr(K_tool_input), Colon, LB, RB, RB>>,
           <<LB, TStr(K_tool_input), Colon, LB, TStr(K_file_path), Colon,
             TStr(P_a_ts), RB, RB>> }
    \* JSON documents that are no object
    \cup { <<TNull>>, <<TNum(<<"1">>)>>, <<TTrue>>, <<TStr(<<"Write">>)>> }
    \* text that is no JSON document
    \cup { SubSeq(Request(WriteTok, TStr(P_a_ts)), 1, k) : k \in {1, 4, 12} }
    \cup { <<RB>>, <<TNull, TNull>>, <<LB, Comma, RB>> }
    \* nothing at all
    \cup { <<>> }

RECURSIVE Splits(_, _)
\* the ways to cut text into at most n non-empty chunks
Splits(text, n) ==
    IF text = <<>> THEN { <<>> }
    ELSE IF n <= 1 THEN { <<text>> }
    ELSE { <<text>> } \cup
         UNION { { <<SubSeq(text, 1, k)>> \o rest :
                     rest \in Splits(SubSeq(text, k + 1, Len(text)), n - 1) } :
                 k \in 1..(Len(text) - 1) }

\* no argument, one argument naming any path, or up to MaxArgs arguments
ArgLists == { <<>> } \cup { <<p>> : p \in Paths } \cup SeqsUpTo(CliPaths, MaxArgs)

\* how long a type-check run takes, in minutes
Durations == {0, CACHE_DURATION - 1, CACHE_DURATION}

ThrowStatuses == {NoStatus, 0, 1, 127}
Stderrs == { <<>>, <<"sh:", "pnpm:", "command not found">>,
             <<"pnpm", "is", "not recognized">>, <<"ELIFECYCLE">> }

(***************************************************************************)
(* The shell wrapper typescript-on-save.sh                                 *)
(***************************************************************************)
\* the wrapper's state: what `command -v` finds, whether the compiled .js
\* exists and whether the .ts is newer than it, and what the script did
Shell(at, tsx, tsnode, tsc, jsExists, tsNewer) ==
    [at |-> at, tsx |-> tsx, tsnode |-> tsnode, tsc |-> tsc,
     jsExists |-> jsExists, tsNewer |-> tsNewer,
     compiles |-> 0, executor |-> "none", argv |-> <<>>,
     stderr |-> FALSE, status |-> NotExited]

\* the hook was started without the wrapper
ShDirect == Shell("direct", FALSE, FALSE, FALSE, FALSE, FALSE)

\* the wrapper is about to run; `-nt` is true when the .js is missing
ShStarts ==
    { s \in { Shell("start", tsx, tsnode, tsc, jsExists, tsNewer) :
                tsx \in BOOLEAN, tsnode \in BOOLEAN, tsc \in BOOLEAN,
                jsExists \in BOOLEAN, tsNewer \in BOOLEAN } :
        s.jsExists \/ s.tsNewer }

SelectExecutor_TsNodeFirst(s) ==
    IF s.tsnode THEN "ts-node" ELSE IF s.tsx THEN "tsx" ELSE "node"

\* if command -v tsx ... elif command -v ts-node ... else (node)
SelectExecutor(s) ==
    IF s.tsx THEN "tsx" ELSE IF s.tsnode THEN "ts-node" ELSE "node"

\* [ ! -f "$SCRIPT_DIR/typescript-on-save.js" ] || [ ...ts -nt ...js ]
NeedsCompile(s) == ~s.jsExists \/ s.tsNewer

(***************************************************************************)
(* State                                                                   *)
(***************************************************************************)
VARIABLES
    args,                   \* process.argv.slice(2)
    isTTY,                  \* process.stdin.isTTY
    stdinRest,              \* the chunks standard input has yet to deliver
    fsKind,                 \* the filesystem: path -> "file" | "dir" | "none"
    now,                    \* Date.now(), in minutes since midnight of the day of the start
    pc,                     \* where the process is
    mode,                   \* the branch main() took
    argIdx,                 \* handleCliMode: index of the next target
    hasErrors,              \* handleCliMode: hasErrors
    inputData,              \* handleHookMode: inputData
    pt,                     \* the locals of the running processTarget call
    result,                 \* the value the last processTarget call returned
    dependencyCheckCache,   \* the module-level cache
    events,                 \* writes to stdout / stderr and process starts
    logLines,               \* the lines appended to LOG_FILE
    exitCode,               \* the exit code, NotExited while running
    fault,                  \* the process died of an uncaught exception
    running,                \* the child processes started and not yet exited
    sh,                     \* the shell wrapper: its environment and position
    LOG_FILE                \* the day in the name of the log file

vars == <<args, isTTY, stdinRest, fsKind, now, pc, mode, argIdx, hasErrors,
          inputData, pt, result, dependencyCheckCache, events, logLines,
          exitCode, fault, running, sh, LOG_FILE>>

inputs == <<args, isTTY, fsKind, LOG_FILE>>

\* process.argv.slice(2) of the hook: what the wrapper passed as "$@" when
\* the hook was started by the wrapper
ProcessArgv == IF sh.at = "direct" THEN args ELSE sh.argv

\* what the wrapper leaves alone: the hook's process has not begun
HookVars == <<inputs, running, stdinRest, now, pc, mode, argIdx, hasErrors,
              inputData, pt, result, dependencyCheckCache, events, logLines,
              exitCode, fault>>

\* the if / elif / else of the script up to its first command
ShSelect ==
    /\ sh.at = "start"
    /\ LET e == SelectExecutor(sh) IN
       IF e # "node"
       THEN sh' = [sh EXCEPT !.at = "hook", !.executor = e, !.argv = args]
       ELSE IF NeedsCompile(sh)
            THEN IF sh.tsc
                 THEN sh' = [sh EXCEPT !.at = "compile"]
                 ELSE sh' = [sh EXCEPT !.at = "exit", !.stderr = TRUE,
                                       !.status = 1]
            ELSE sh' = [sh EXCEPT !.at = "node"]
    /\ UNCHANGED HookVars

\* tsc --target es2020 --module commonjs --outDir ...: it writes the .js
\* or fails; the script goes on in both cases (no set -e)
ShCompile ==
    /\ sh.at = "compile"
    /\ \E emitted \in BOOLEAN :
         sh' = [sh EXCEPT !.at = "node",
                          !.compiles = @ + 1,
                          !.jsExists = @ \/ emitted,
                          !.tsNewer = @ /\ ~emitted]
    /\ UNCHANGED HookVars

\* exec node "$SCRIPT_DIR/typescript-on-save.js" "$@": node runs the hook,
\* or finds no module to run and exits 1 with a message
ShExecNode ==
    /\ sh.at = "node"
    /\ IF sh.jsExists
       THEN sh' = [sh EXCEPT !.at = "hook", !.executor = "node",
                             !.argv = args]
       ELSE sh' = [sh EXCEPT !.at = "exit", !.executor = "node",
                             !.argv = args, !.stderr = TRUE, !.status = 1]
    /\ UNCHANGED HookVars

\* the state after construction, for a process that starts at minute clock
\* of its first day and a wrapper in one of the states shells
InitWith(clock, shells) ==
    /\ args \in ArgLists
    /\ isTTY \in BOOLEAN
    \* standard input is read in hook mode only: it is left empty otherwise
    \* the terminal flag is read only without arguments: it varies for the
    \* empty and the one-element argument lists
    /\ Len(args) > 1 => ~isTTY
    /\ \E payload \in Payloads :
         /\ (args # <<>> \/ isTTY) => payload = <<>>
         /\ stdinRest \in Splits(payload, MaxChunks)
    /\ fsKind = FileSystem
    /\ now = clock
    /\ LOG_FILE = Day(clock)
    /\ pc = "main"
    /\ mode = "none"
    /\ argIdx = 1
    /\ hasErrors = FALSE
    /\ inputData = <<>>
    /\ pt = NewFrame(<<>>)
    /\ result = NoResponse
    /\ dependencyCheckCache = NoCache
    /\ events = <<>>
    /\ logLines = <<>>
    /\ exitCode = NotExited
    /\ fault = FALSE
    /\ running = {}
    /\ sh \in shells

\* the hook started directly, at the first minute of a day
Init == InitWith(0, {ShDirect})

\* fs.existsSync(p)
ExistsSync(p) == fsKind[p] # "none"
\* fs.existsSync(p) && fs.statSync(p).isFile()
IsExistingFile(p) == ExistsSync(p) /\ fsKind[p] = "file"

\* process.exit(code) / the event loop running empty
Exit(code) ==
    /\ pc' = "done"
    /\ exitCode' = code
    /\ fault' = FALSE

\* main() returns: its two closing log lines
MainTail == <<L("INFO", "completed"), L("INFO", "====")>>

(***************************************************************************)
(* main                                                                    *)
(***************************************************************************)
Main_TerminalFirst ==
    /\ pc = "main"
    /\ sh.at \in {"direct", "hook"}
    /\ IF Len(ProcessArgv) > 0 /\ ~isTTY
       THEN /\ mode' = "cli"
            /\ pc' = "cli_loop"
            /\ logLines' = logLines \o <<L("INFO", "===="), L("INFO", "started"),
                                         L("INFO", "Running in CLI mode")>>
            /\ UNCHANGED pt
       ELSE IF isTTY
       THEN /\ mode' = "interactive"
            /\ pc' = "pt_deps"
            /\ pt' = NewFrame(P_dot)
            /\ logLines' = logLines \o <<L("INFO", "===="), L("INFO", "started"),
                                         L("INFO", "Running in CLI mode (no args)")>>
       ELSE /\ mode' = "hook"
            /\ pc' = "hook_read"
            /\ logLines' = logLines \o <<L("INFO", "===="), L("INFO", "started"),
                                         L("INFO", "Running in hook mode")>>
                                    \o MainTail
            /\ UNCHANGED pt
    /\ UNCHANGED <<inputs, sh, running, stdinRest, now, argIdx, hasErrors, inputData, result,
                   dependencyCheckCache, events, exitCode, fault>>

\* main(): the mode is chosen from the arguments and the terminal flag
Main ==
    /\ pc = "main"
    /\ sh.at \in {"direct", "hook"}
    /\ IF Len(ProcessArgv) > 0
       THEN /\ mode' = "cli"
            /\ pc' = "cli_loop"
            /\ logLines' = logLines \o <<L("INFO", "===="), L("INFO", "started"),
                                         L("INFO", "Running in CLI mode")>>
            /\ UNCHANGED pt
       ELSE IF isTTY
       THEN /\ mode' = "interactive"
            /\ pc' = "pt_deps"
            /\ pt' = NewFrame(P_dot)
            /\ logLines' = logLines \o <<L("INFO", "===="), L("INFO", "started"),
                                         L("INFO", "Running in CLI mode (no args)")>>
       ELSE /\ mode' = "hook"
            /\ pc' = "hook_read"
            /\ logLines' = logLines \o <<L("INFO", "===="), L("INFO", "started"),
                                         L("INFO", "Running in hook mode")>>
                                    \o MainTail
            /\ UNCHANGED pt
    /\ UNCHANGED <<inputs, sh, running, stdinRest, now, argIdx, hasErrors, inputData, result,
                   dependencyCheckCache, events, exitCode, fault>>

(***************************************************************************)
(* checkDependencies                                                       *)
(***************************************************************************)
CacheValid_Inclusive ==
    /\ dependencyCheckCache.set
    /\ (now - dependencyCheckCache.timestamp) <= CACHE_DURATION

CacheValid_OkOnly ==
    /\ dependencyCheckCache.set
    /\ (now - dependencyCheckCache.timestamp) < CACHE_DURATION
    /\ ~dependencyCheckCache.result.hasErrors

\* dependencyCheckCache && (Date.now() - timestamp) < CACHE_DURATION
CacheValid ==
    /\ dependencyCheckCache.set
    /\ (now - dependencyCheckCache.timestamp) < CACHE_DURATION

\* processTarget is entered and calls checkDependencies, which answers from
\* the cache or goes on to probe
CheckDependencies ==
    /\ pc = "pt_deps"
    /\ IF CacheValid
       THEN /\ pt' = [pt EXCEPT !.depCheck = dependencyCheckCache.result]
            /\ pc' = "pt_classify"
            /\ logLines' = logLines \o <<L("INFO", "Processing target"),
                                         L("DEBUG", "Using cached dependency check result")>>
       ELSE /\ pc' = "probe_pnpm"
            /\ logLines' = Append(logLines, L("INFO", "Processing target"))
            /\ UNCHANGED pt
    /\ UNCHANGED <<inputs, sh, running, stdinRest, now, mode, argIdx, hasErrors, inputData,
                   result, dependencyCheckCache, events, exitCode, fault>>

\* pnpm exec eslint --cache --cache-location .eslintcache "<target>"
LintCommand == "pnpm exec eslint --cache <target>"

ExecStart_WithLinter(cmd) ==
    /\ running = {}
    /\ running' = IF pc = "typecheck" THEN {cmd, LintCommand} ELSE {cmd}
    /\ UNCHANGED <<inputs, sh, stdinRest, now, pc, mode, argIdx, hasErrors,
                   inputData, pt, result, dependencyCheckCache, events,
                   logLines, exitCode, fault>>

\* execSync(cmd) starts the child process and waits for it
ExecStart(cmd) ==
    /\ running = {}
    /\ running' = {cmd}
    /\ UNCHANGED <<inputs, sh, stdinRest, now, pc, mode, argIdx, hasErrors,
                   inputData, pt, result, dependencyCheckCache, events,
                   logLines, exitCode, fault>>

\* the child process has exited and execSync returns or throws
ExecReturn(cmd) ==
    /\ running = {cmd}
    /\ running' = {}

\* one probe: the command runs; if it fails the verdict names the tool, is
\* cached and returned; if it succeeds the next probe follows, and after
\* the last one the ok verdict is cached and returned
Probe(at, cmd, tool, next) ==
    /\ pc = at
    /\ \/ ExecStart(cmd)
       \/ /\ ExecReturn(cmd)
          /\ \E installed \in BOOLEAN :
               /\ events' = Append(events, Spawn(cmd, ~installed))
               /\ IF ~installed
                  THEN /\ dependencyCheckCache' =
                             [set |-> TRUE, timestamp |-> now, result |-> DepResult(TRUE, tool)]
                       /\ pt' = [pt EXCEPT !.depCheck = DepResult(TRUE, tool)]
                       /\ pc' = "pt_classify"
                  ELSE IF next = "pt_classify"
                  THEN /\ dependencyCheckCache' =
                             [set |-> TRUE, timestamp |-> now, result |-> DepResult(FALSE, "")]
                       /\ pt' = [pt EXCEPT !.depCheck = DepResult(FALSE, "")]
                       /\ pc' = next
                  ELSE /\ pc' = next
                       /\ UNCHANGED <<dependencyCheckCache, pt>>
          /\ UNCHANGED <<inputs, sh, stdinRest, now, mode, argIdx, hasErrors, inputData,
                         result, logLines, exitCode, fault>>

ProbePnpm_Again ==
    /\ pc = "probe_pnpm"
    /\ \/ ExecStart("which pnpm")
       \/ /\ ExecReturn("which pnpm")
          /\ Len(events) < 2
          /\ events' = Append(events, Spawn("which pnpm", TRUE))
          /\ UNCHANGED <<inputs, sh, stdinRest, now, pc, mode, argIdx, hasErrors,
                         inputData, pt, result, dependencyCheckCache, logLines,
                         exitCode, fault>>
       \/ Probe("probe_pnpm", "which pnpm", "pnpm", "probe_svelte_check")

ProbePnpm == Probe("probe_pnpm", "which pnpm", "pnpm", "probe_svelte_check")
ProbeSvelteCheck_NamesEslint ==
    Probe("probe_svelte_check", "pnpm list svelte-check", "eslint", "probe_eslint")
ProbeSvelteCheck ==
    Probe("probe_svelte_check", "pnpm list svelte-check", "svelte-check", "probe_eslint")
ProbeEslint == Probe("probe_eslint", "pnpm list eslint", "eslint", "pt_classify")

(***************************************************************************)
(* processTarget                                                           *)
(***************************************************************************)
\* processTarget returns r to its caller; its locals are gone
Return(r) ==
    /\ result' = r
    /\ pt' = NewFrame(<<>>)
    /\ pc' = "ret"

DepFailed_Never(f) == FALSE

\* if (depCheck.hasErrors)
DepFailed(f) == f.depCheck.hasErrors

\* after checkDependencies: the dependency verdict, then the single-file
\* skip rules, then isSingleFile
Classify ==
    /\ pc = "pt_classify"
    /\ IF DepFailed(pt)
       THEN /\ events' = Append(events, Stderr(pt.depCheck.message, 0))
            /\ Return(FailDoc(JStr(pt.target), MissingDepsError))
            /\ UNCHANGED logLines
       ELSE IF IsExistingFile(pt.target) /\ ~isTypeScriptOrSvelteFile(pt.target)
       THEN /\ Return(SkipDoc(JStr(pt.target), Undefined, "not a TypeScript/Svelte file"))
            /\ logLines' = Append(logLines, L("INFO", "Skipping non-TypeScript/Svelte file"))
            /\ UNCHANGED events
       ELSE IF IsExistingFile(pt.target) /\ ~ExistsSync(pt.target)
       THEN /\ Return(SkipDoc(JStr(pt.target), Undefined, "file does not exist"))
            /\ logLines' = Append(logLines, L("WARNING", "File does not exist"))
            /\ UNCHANGED events
       ELSE /\ pt' = [pt EXCEPT !.isSingleFile = IsExistingFile(pt.target)]
            /\ pc' = "typecheck"
            /\ logLines' = Append(logLines, L("INFO", "Running type and lint checks"))
            /\ UNCHANGED <<events, result>>
    /\ UNCHANGED <<inputs, sh, running, stdinRest, now, mode, argIdx, hasErrors, inputData,
                   dependencyCheckCache, exitCode, fault>>

\* the type-check command chosen for the target
TypeCheckCommand(target, isSingleFile) ==
    IF isSingleFile /\ EndsWith(target, <<".", "t", "s">>)
    THEN "pnpm exec tsc --noEmit <target>"
    ELSE IF isSingleFile /\ EndsWith(target, <<".", "s", "v", "e", "l", "t", "e">>)
    THEN "pnpm exec svelte-check (cwd: dirname(target))"
    ELSE "pnpm exec svelte-check"

StatusOr1_Raw(status) == IF status = NoStatus THEN 1 ELSE status

\* err.status || 1
StatusOr1(status) == IF status = NoStatus \/ status = 0 THEN 1 ELSE status

\* stderr.includes('command not found') || stderr.includes('not recognized')
CommandNotFound(stderr) ==
    \E i \in 1..Len(stderr) : stderr[i] \in {"command not found", "not recognized"}

LintApplies_ByName(target) == isTypeScriptOrSvelteFile(target)

\* the ESLint block runs for an existing file with a supported suffix
LintApplies(target) == IsExistingFile(target) /\ isTypeScriptOrSvelteFile(target)

\* (text.match(/Error:/g) || []).length and the same for Warning:
TypeErrorCount(f) == CountMarker(f.svelteCheckOutput, "Error:")
TypeWarningCount(f) == CountMarker(f.svelteCheckOutput, "Warning:")

AllPassed_ByCounts(f) ==
    /\ f.svelteCheckExitCode = 0 /\ f.eslintExitCode = 0
    /\ CountMarker(f.svelteCheckOutput, "Error:") = 0

AllPassed_NoMarkers(f) ==
    CountMarker(f.svelteCheckOutput, "Error:") = 0 /\ f.eslintErrorCount = 0

\* svelteCheckExitCode === 0 && eslintExitCode === 0
AllPassed(f) == f.svelteCheckExitCode = 0 /\ f.eslintExitCode = 0

\* the record processTarget builds from its locals once both tools are done
FinishResult(f) ==
    IF AllPassed(f)
    THEN Response(JStr(f.target), Undefined, "true", FALSE, <<>>, "absent", "",
            ToolRec(f.svelteCheckExitCode, TypeErrorCount(f), TypeWarningCount(f),
                    FALSE, EmptyText),
            ToolRec(f.eslintExitCode, f.eslintErrorCount, f.eslintWarningCount,
                    FALSE, EmptyText))
    ELSE Response(JStr(f.target), Undefined, "false", FALSE, <<>>, "absent", "",
            ToolRec(f.svelteCheckExitCode, TypeErrorCount(f), TypeWarningCount(f),
                    TypeErrorCount(f) > 0,
                    IF TypeErrorCount(f) > 0
                    THEN TypeErrorLines(f.svelteCheckOutput) ELSE EmptyText),
            ToolRec(f.eslintExitCode, f.eslintErrorCount, f.eslintWarningCount,
                    f.eslintErrorCount > 0,
                    IF f.eslintErrorCount > 0
                    THEN EslintLines(f.eslintOutput) ELSE EmptyText))

\* typeErrorCount + eslintErrorCount, typeWarningCount + eslintWarningCount
TotalErrorCount(f) == TypeErrorCount(f) + f.eslintErrorCount
TotalWarningCount(f) == TypeWarningCount(f) + f.eslintWarningCount

FinishLog(f) ==
    <<LN("INFO", "Total errors and warnings", TotalErrorCount(f), TotalWarningCount(f)),
      IF AllPassed(f)
      THEN L("SUCCESS", "All checks passed") ELSE L("WARNING", "Checks failed")>>

\* the type checker runs to its end; a failure that left no output and a
\* command-not-found message ends the call; otherwise the call goes on to
\* ESLint, or finishes when ESLint does not apply
TypeCheck ==
    /\ pc = "typecheck"
    /\ \/ ExecStart(TypeCheckCommand(pt.target, pt.isSingleFile))
       \/ /\ ExecReturn(TypeCheckCommand(pt.target, pt.isSingleFile))
          /\ \E threw \in BOOLEAN, status \in ThrowStatuses, out \in TcTexts,
                err \in Stderrs, d \in Durations :
               /\ ~threw => (status = 0 /\ err = <<>>)
               /\ now' = now + d
               /\ LET cmd == TypeCheckCommand(pt.target, pt.isSingleFile)
                      f == [pt EXCEPT !.svelteCheckExitCode = IF threw THEN StatusOr1(status) ELSE 0,
                                      !.svelteCheckOutput = out]
                  IN IF threw /\ IsEmptyText(out) /\ err # <<>> /\ CommandNotFound(err)
                     THEN /\ events' = events \o <<Run(cmd, threw, out), Stderr("Failed to run svelte-check!", 0)>>
                          /\ Return(FailDoc(JStr(pt.target), RunFailedError))
                          /\ logLines' = Append(logLines, L("DEBUG", "type check command"))
                     ELSE IF LintApplies(pt.target)
                     THEN /\ events' = Append(events, Run(cmd, threw, out))
                          /\ pt' = f
                          /\ pc' = "lint"
                          /\ logLines' = logLines \o <<L("DEBUG", "type check command"),
                                                       L("DEBUG", "svelte-check exit code")>>
                          /\ UNCHANGED result
                     ELSE /\ events' = Append(events, Run(cmd, threw, out))
                          /\ Return(FinishResult(f))
                          /\ logLines' = logLines \o <<L("DEBUG", "type check command"),
                                                       L("DEBUG", "svelte-check exit code"),
                                                       L("INFO", "Skipping ESLint")>>
                                                  \o FinishLog(f)
          /\ UNCHANGED <<inputs, sh, stdinRest, mode, argIdx, hasErrors, inputData,
                         dependencyCheckCache, exitCode, fault>>

\* eslintErrorCount / eslintWarningCount: 0 unless execSync threw, then
\* the numbers of the summary line
LintCounts(threw, out) ==
    IF threw THEN EslintCounts(out) ELSE [errors |-> 0, warnings |-> 0]

\* ESLint runs to its end; its summary line is read only when it failed;
\* then the result record is built
Lint ==
    /\ pc = "lint"
    /\ \/ ExecStart(LintCommand)
       \/ /\ ExecReturn(LintCommand)
          /\ \E threw \in BOOLEAN, status \in ThrowStatuses, out \in EsTexts :
               /\ ~threw => status = 0
               /\ LET counts == LintCounts(threw, out)
                      f == [pt EXCEPT !.eslintExitCode = IF threw THEN StatusOr1(status) ELSE 0,
                                      !.eslintOutput = out,
                                      !.eslintErrorCount = counts.errors,
                                      !.eslintWarningCount = counts.warnings]
                  IN /\ Return(FinishResult(f))
                     /\ logLines' = logLines \o <<L("DEBUG", "eslint exit code"),
                                                  L("INFO", "ESLint found errors and warnings")>>
                                             \o FinishLog(f)
                     /\ events' = Append(events, Run(LintCommand, threw, out))
          /\ UNCHANGED <<inputs, sh, stdinRest, now, mode, argIdx, hasErrors, inputData,
                         dependencyCheckCache, exitCode, fault>>

(***************************************************************************)
(* handleCliMode and the interactive branch of main                        *)
(***************************************************************************)
\* the head of the for loop: the next target is processed, or the loop is
\* over and the process exits 1 if a target failed and ends normally if not
CliLoop ==
    /\ pc = "cli_loop"
    /\ mode = "cli"
    /\ IF argIdx <= Len(ProcessArgv)
       THEN /\ pt' = NewFrame(ProcessArgv[argIdx])
            /\ pc' = "pt_deps"
            /\ UNCHANGED <<logLines, exitCode, fault>>
       ELSE IF hasErrors
       THEN /\ Exit(1)
            /\ UNCHANGED <<pt, logLines>>
       ELSE /\ Exit(0)
            /\ logLines' = logLines \o MainTail
            /\ UNCHANGED pt
    /\ UNCHANGED <<inputs, sh, running, stdinRest, now, mode, argIdx, hasErrors, inputData,
                   result, dependencyCheckCache, events>>

IsFailure_NotTrue(r) == r.success # "true"

\* result.success === false
IsFailure(r) == r.success = "false"

\* the body of the loop after processTarget returned
CliAfterTarget ==
    /\ pc = "ret"
    /\ mode = "cli"
    /\ events' = Append(events, Stdout(result, TRUE))
    /\ hasErrors' = (hasErrors \/ IsFailure(result))
    /\ argIdx' = argIdx + 1
    /\ pc' = "cli_loop"
    /\ UNCHANGED <<inputs, sh, running, stdinRest, now, mode, inputData, pt, result,
                   dependencyCheckCache, logLines, exitCode, fault>>

InteractiveAfterTarget_Exit2 ==
    /\ pc = "ret"
    /\ mode = "interactive"
    /\ events' = Append(events, Stdout(result, TRUE))
    /\ IF IsFailure(result)
       THEN /\ Exit(2)
            /\ UNCHANGED logLines
       ELSE /\ Exit(0)
            /\ logLines' = logLines \o MainTail
    /\ UNCHANGED <<inputs, sh, running, stdinRest, now, mode, argIdx, hasErrors, inputData,
                   pt, result, dependencyCheckCache>>

\* main's interactive branch after processTarget('.') returned
InteractiveAfterTarget ==
    /\ pc = "ret"
    /\ mode = "interactive"
    /\ events' = Append(events, Stdout(result, TRUE))
    /\ IF IsFailure(result)
       THEN /\ Exit(1)
            /\ UNCHANGED logLines
       ELSE /\ Exit(0)
            /\ logLines' = logLines \o MainTail
    /\ UNCHANGED <<inputs, sh, running, stdinRest, now, mode, argIdx, hasErrors, inputData,
                   pt, result, dependencyCheckCache>>

(***************************************************************************)
(* handleHookMode                                                          *)
(***************************************************************************)
HookData_Prepend ==
    /\ pc = "hook_read"
    /\ stdinRest # <<>>
    /\ inputData' = Head(stdinRest) \o inputData
    /\ stdinRest' = Tail(stdinRest)
    /\ UNCHANGED <<inputs, sh, running, now, pc, mode, argIdx, hasErrors, pt, result,
                   dependencyCheckCache, events, logLines, exitCode, fault>>

\* process.stdin.on('data')
HookData ==
    /\ pc = "hook_read"
    /\ stdinRest # <<>>
    /\ inputData' = inputData \o Head(stdinRest)
    /\ stdinRest' = Tail(stdinRest)
    /\ UNCHANGED <<inputs, sh, running, now, pc, mode, argIdx, hasErrors, pt, result,
                   dependencyCheckCache, events, logLines, exitCode, fault>>

\* the reason string of a blocking response
BlockReason(r) ==
    LET typeErrorCount == IF r.svelte_check.present THEN r.svelte_check.error_count ELSE 0
        eslintErrorCount == IF r.eslint.present THEN r.eslint.error_count ELSE 0
        totalErrors == typeErrorCount + eslintErrorCount
        typeErrors == IF r.svelte_check.hasOutput THEN r.svelte_check.output ELSE EmptyText
        eslintErrors == IF r.eslint.hasOutput THEN r.eslint.output ELSE EmptyText
        errorMessage ==
            <<Part("The file has errors that must be fixed before continuing.", 0, EmptyText)>>
            \o (IF typeErrorCount > 0
                THEN <<Part("TypeScript Errors", typeErrorCount, typeErrors)>> ELSE <<>>)
            \o (IF eslintErrorCount > 0
                THEN <<Part("ESLint Errors", eslintErrorCount, eslintErrors)>> ELSE <<>>)
    IN (IF totalErrors = 0 /\ r.error # ""
        THEN <<Part(r.error, 0, EmptyText)>> ELSE errorMessage)
       \o <<Part("Fix these issues and try again.", 0, EmptyText)>>

BlockTotal_TypeOnly(r) ==
    IF r.svelte_check.present THEN r.svelte_check.error_count ELSE 0

\* the error total the blocking path reports on standard error
BlockTotal(r) ==
    (IF r.svelte_check.present THEN r.svelte_check.error_count ELSE 0)
    + (IF r.eslint.present THEN r.eslint.error_count ELSE 0)

BlockingResponse(r) ==
    Response(Undefined, Undefined, "absent", FALSE, BlockReason(r), "block", "",
             NoToolRec, NoToolRec)

NoInput_Parses ==
    /\ events' = Append(events, Stdout(ErrorDoc("Invalid JSON input"), FALSE))
    /\ logLines' = logLines \o <<L("DEBUG", "Received input"),
                                 L("ERROR", "Failed to parse JSON input")>>
    /\ Exit(1)
    /\ UNCHANGED pt

\* !inputData: the error record, exit 0
NoInput ==
    /\ events' = Append(events, Stdout(ErrorDoc("No input received"), FALSE))
    /\ logLines' = Append(logLines, L("WARNING", "No input received from stdin"))
    /\ Exit(0)
    /\ UNCHANGED pt

InvalidJson_Exit2 ==
    /\ events' = Append(events, Stdout(ErrorDoc("Invalid JSON input"), FALSE))
    /\ logLines' = logLines \o <<L("DEBUG", "Received input"),
                                 L("ERROR", "Failed to parse JSON input")>>
    /\ Exit(2)
    /\ UNCHANGED pt

\* JSON.parse threw: the error record, exit 1
InvalidJson ==
    /\ events' = Append(events, Stdout(ErrorDoc("Invalid JSON input"), FALSE))
    /\ logLines' = logLines \o <<L("DEBUG", "Received input"),
                                 L("ERROR", "Failed to parse JSON input")>>
    /\ Exit(1)
    /\ UNCHANGED pt

\* hookInput.tool_name throws a TypeError that nothing catches: the stack
\* trace goes to standard error and the process exits 1
UncaughtTypeError ==
    /\ events' = Append(events, Stderr("Uncaught TypeError", 0))
    /\ logLines' = Append(logLines, L("DEBUG", "Received input"))
    /\ pc' = "done"
    /\ exitCode' = 1
    /\ fault' = TRUE
    /\ UNCHANGED pt

\* a tool other than Write / Edit / MultiEdit: the skip record; the handler
\* returns and the process ends
IgnoreTool(toolName) ==
    /\ events' = Append(events,
         Stdout(SkipDoc(Undefined, toolName, "not a file editing tool"), FALSE))
    /\ logLines' = logLines \o <<L("DEBUG", "Received input"),
                                 L("DEBUG", "Parsed tool_name"),
                                 L("DEBUG", "Ignoring tool")>>
    /\ Exit(0)
    /\ UNCHANGED pt

\* no file_path: the error record; the handler returns and the process ends
NoFilePath ==
    /\ events' = Append(events,
         Stdout(ErrorDoc("No file_path found in tool input"), FALSE))
    /\ logLines' = logLines \o <<L("DEBUG", "Received input"),
                                 L("DEBUG", "Parsed tool_name"),
                                 L("WARNING", "No file_path found")>>
    /\ Exit(0)
    /\ UNCHANGED pt

SkipUnsupported_Processes(toolName, filePath) ==
    /\ pt' = NewFrame(ToStr(filePath))
    /\ pc' = "pt_deps"
    /\ logLines' = logLines \o <<L("DEBUG", "Received input"),
                                 L("DEBUG", "Parsed tool_name"),
                                 L("INFO", "Processing operation")>>
    /\ UNCHANGED <<events, exitCode, fault>>

\* a file_path without a supported suffix: the skip record, exit 0
SkipUnsupported(toolName, filePath) ==
    /\ events' = Append(events,
         Stdout(SkipDoc(filePath, toolName, "not a TypeScript/Svelte file"), FALSE))
    /\ logLines' = logLines \o <<L("DEBUG", "Received input"),
                                 L("DEBUG", "Parsed tool_name"),
                                 L("INFO", "Processing operation"),
                                 L("DEBUG", "Skipping non-TypeScript/Svelte file")>>
    /\ Exit(0)
    /\ UNCHANGED pt

\* processTarget(filePath) is called
ProcessFile(filePath) ==
    /\ pt' = NewFrame(ToStr(filePath))
    /\ pc' = "pt_deps"
    /\ logLines' = logLines \o <<L("DEBUG", "Received input"),
                                 L("DEBUG", "Parsed tool_name"),
                                 L("INFO", "Processing operation")>>
    /\ UNCHANGED <<events, exitCode, fault>>

\* process.stdin.on('end'), up to the call of processTarget
HookEnd ==
    /\ pc = "hook_read"
    /\ stdinRest = <<>>
    /\ LET parsed == JSONParse(inputData)
           hookInput == parsed.val
           toolName == GetProp(hookInput, K_tool_name)
           filePath == GetPropOpt(GetProp(hookInput, K_tool_input), K_file_path)
       IN
       IF inputData = <<>> THEN NoInput
       ELSE IF ~parsed.ok THEN InvalidJson
       ELSE IF PropThrows(hookInput) THEN UncaughtTypeError
       ELSE IF ~IsEditTool(toolName) THEN IgnoreTool(toolName)
       ELSE IF ~Truthy(filePath) THEN NoFilePath
       ELSE IF ~isTypeScriptOrSvelteFile(ToStr(filePath))
       THEN SkipUnsupported(toolName, filePath)
       ELSE ProcessFile(filePath)
    /\ UNCHANGED <<inputs, sh, running, stdinRest, now, mode, argIdx, hasErrors, inputData,
                   result, dependencyCheckCache>>

HookAfterTarget_StderrOnly ==
    /\ pc = "ret"
    /\ mode = "hook"
    /\ IF IsFailure(result)
       THEN /\ events' = Append(events,
                   Stderr("Checks failed with total errors", BlockTotal(result)))
            /\ logLines' = Append(logLines, L("ERROR", "Blocking due to checking errors"))
            /\ Exit(2)
       ELSE /\ events' = Append(events, Stdout(result, FALSE))
            /\ Exit(0)
            /\ UNCHANGED logLines
    /\ UNCHANGED <<inputs, sh, running, stdinRest, now, mode, argIdx, hasErrors, inputData,
                   pt, result, dependencyCheckCache>>

\* the 'end' handler after processTarget returned: block, or print the result
HookAfterTarget ==
    /\ pc = "ret"
    /\ mode = "hook"
    /\ IF IsFailure(result)
       THEN /\ events' = events \o <<Stdout(BlockingResponse(result), FALSE),
                                     Stderr("Checks failed with total errors", BlockTotal(result))>>
            /\ logLines' = Append(logLines, L("ERROR", "Blocking due to checking errors"))
            /\ Exit(2)
       ELSE /\ events' = Append(events, Stdout(result, FALSE))
            /\ Exit(0)
            /\ UNCHANGED logLines
    /\ UNCHANGED <<inputs, sh, running, stdinRest, now, mode, argIdx, hasErrors, inputData,
                   pt, result, dependencyCheckCache>>

(***************************************************************************)
(* Specification                                                           *)
(***************************************************************************)
Next ==
    \/ Main
    \/ CheckDependencies
    \/ ProbePnpm
    \/ ProbeSvelteCheck
    \/ ProbeEslint
    \/ Classify
    \/ TypeCheck
    \/ Lint
    \/ CliLoop
    \/ CliAfterTarget
    \/ InteractiveAfterTarget
    \/ HookData
    \/ HookEnd
    \/ HookAfterTarget

Spec == Init /\ [][Next]_vars

\* the runs in hook mode: no arguments, standard input a pipe
InitHook == Init /\ args = <<>> /\ ~isTTY

NextHook ==
    \/ Main
    \/ CheckDependencies
    \/ ProbePnpm
    \/ ProbeSvelteCheck
    \/ ProbeEslint
    \/ Classify
    \/ TypeCheck
    \/ Lint
    \/ HookData
    \/ HookEnd
    \/ HookAfterTarget

SpecHook == InitHook /\ [][NextHook]_vars

\* the runs with one argument on the command line
InitCli1 == Init /\ Len(args) = 1 /\ isTTY

NextCli ==
    \/ Main
    \/ CheckDependencies
    \/ ProbePnpm
    \/ ProbeSvelteCheck
    \/ ProbeEslint
    \/ Classify
    \/ TypeCheck
    \/ Lint
    \/ CliLoop
    \/ CliAfterTarget

SpecCli1 == InitCli1 /\ [][NextCli]_vars

\* one-argument CLI runs that start CACHE_DURATION minutes before midnight
InitNight ==
    /\ InitWith(MinutesPerDay - CACHE_DURATION, {ShDirect})
    /\ Len(args) = 1
    /\ isTTY

SpecNight == InitNight /\ [][NextCli]_vars

\* the clock goes on between the first and the second target of a CLI run,
\* until the cached status has expired
TimePasses ==
    /\ pc = "cli_loop"
    /\ mode = "cli"
    /\ argIdx = 2
    /\ dependencyCheckCache.set
    /\ now - dependencyCheckCache.timestamp < CACHE_DURATION
    /\ now' = now + 1
    /\ UNCHANGED <<inputs, sh, running, stdinRest, pc, mode, argIdx, hasErrors,
                   inputData, pt, result, dependencyCheckCache, events,
                   logLines, exitCode, fault>>

\* CLI runs on a picture and then a second target, with time passing
\* between the two
InitStale ==
    /\ Init
    /\ args \in { <<P_x_png, P_a_ts>>, <<P_x_png, P_x_png>> }
    /\ ~isTTY

NextStale ==
    \/ Main
    \/ CheckDependencies
    \/ ProbePnpm
    \/ ProbeSvelteCheck
    \/ ProbeEslint
    \/ Classify
    \/ TypeCheck
    \/ Lint
    \/ CliLoop
    \/ CliAfterTarget
    \/ TimePasses

SpecStale == InitStale /\ [][NextStale]_vars

(***************************************************************************)
(* processTarget while another process creates and deletes the target      *)
(*                                                                         *)
(* The filesystem queries of lines 165, 175 and 187 are steps of their     *)
(* own, existsSync and statSync apart; the query of line 256 is made when  *)
(* the type checker returns.                                               *)
(***************************************************************************)
RaceStates == {"pt_classify", "stat165", "exists175", "exists187", "stat187",
               "typecheck", "lint"}

\* another process creates the target as a regular file, or deletes it
FsChange ==
    /\ pc \in RaceStates
    /\ \E kind \in {"file", "none"} :
         /\ fsKind[pt.target] # kind
         /\ fsKind' = [fsKind EXCEPT ![pt.target] = kind]
    /\ UNCHANGED <<args, isTTY, LOG_FILE, sh, running, stdinRest, now, pc, mode,
                   argIdx, hasErrors, inputData, pt, result,
                   dependencyCheckCache, events, logLines, exitCode, fault>>

\* fs.statSync(target) throws ENOENT and nothing catches it: the stack
\* trace goes to standard error and the process exits 1
StatThrows ==
    /\ events' = Append(events, Stderr("Uncaught ENOENT", 0))
    /\ pc' = "done"
    /\ exitCode' = 1
    /\ fault' = TRUE
    /\ UNCHANGED <<pt, result, logLines>>

\* a failed preflight ends the call before any query of the filesystem
ClassifyDepFailed == DepFailed(pt) /\ Classify

\* line 165: fs.existsSync(target)
Exists165 ==
    /\ pc = "pt_classify"
    /\ ~DepFailed(pt)
    /\ pc' = IF ExistsSync(pt.target) THEN "stat165" ELSE "exists187"
    /\ logLines' = IF ExistsSync(pt.target) THEN logLines
                   ELSE Append(logLines, L("INFO", "Running type and lint checks"))
    /\ UNCHANGED <<inputs, sh, running, stdinRest, now, mode, argIdx, hasErrors,
                   inputData, pt, result, dependencyCheckCache, events,
                   exitCode, fault>>

\* line 165: fs.statSync(target).isFile(), then the test of the suffix
Stat165 ==
    /\ pc = "stat165"
    /\ IF fsKind[pt.target] = "none"
       THEN StatThrows
       ELSE IF fsKind[pt.target] = "file" /\ ~isTypeScriptOrSvelteFile(pt.target)
       THEN /\ Return(SkipDoc(JStr(pt.target), Undefined, "not a TypeScript/Svelte file"))
            /\ logLines' = Append(logLines, L("INFO", "Skipping non-TypeScript/Svelte file"))
            /\ UNCHANGED <<events, exitCode, fault>>
       ELSE IF fsKind[pt.target] = "file"
       THEN /\ pc' = "exists175"
            /\ UNCHANGED <<pt, result, logLines, events, exitCode, fault>>
       ELSE /\ pc' = "exists187"
            /\ logLines' = Append(logLines, L("INFO", "Running type and lint checks"))
            /\ UNCHANGED <<pt, result, events, exitCode, fault>>
    /\ UNCHANGED <<inputs, sh, running, stdinRest, now, mode, argIdx, hasErrors,
                   inputData, dependencyCheckCache>>

\* line 175: if (!fs.existsSync(target))
Exists175 ==
    /\ pc = "exists175"
    /\ IF ~ExistsSync(pt.target)
       THEN /\ Return(SkipDoc(JStr(pt.target), Undefined, "file does not exist"))
            /\ logLines' = Append(logLines, L("WARNING", "File does not exist"))
       ELSE /\ pc' = "exists187"
            /\ logLines' = Append(logLines, L("INFO", "Running type and lint checks"))
            /\ UNCHANGED <<pt, result>>
    /\ UNCHANGED <<inputs, sh, running, stdinRest, now, mode, argIdx, hasErrors,
                   inputData, dependencyCheckCache, events, exitCode, fault>>

\* line 187: fs.existsSync(target), the left operand of isSingleFile
Exists187 ==
    /\ pc = "exists187"
    /\ IF ExistsSync(pt.target)
       THEN /\ pc' = "stat187"
            /\ UNCHANGED pt
       ELSE /\ pt' = [pt EXCEPT !.isSingleFile = FALSE]
            /\ pc' = "typecheck"
    /\ UNCHANGED <<inputs, sh, running, stdinRest, now, mode, argIdx, hasErrors,
                   inputData, result, dependencyCheckCache, events, logLines,
                   exitCode, fault>>

\* line 187: fs.statSync(target).isFile(), the right operand
Stat187 ==
    /\ pc = "stat187"
    /\ IF fsKind[pt.target] = "none"
       THEN StatThrows
       ELSE /\ pt' = [pt EXCEPT !.isSingleFile = (fsKind[pt.target] = "file")]
            /\ pc' = "typecheck"
            /\ UNCHANGED <<result, events, logLines, exitCode, fault>>
    /\ UNCHANGED <<inputs, sh, running, stdinRest, now, mode, argIdx, hasErrors,
                   inputData, dependencyCheckCache>>

\* CLI runs on one target that is, at the start, a .ts file, a picture or
\* nothing
InitRace ==
    /\ Init
    /\ args \in { <<P_a_ts>>, <<P_gone_ts>>, <<P_x_png>> }
    /\ isTTY

NextRace ==
    \/ Main
    \/ CheckDependencies
    \/ ProbePnpm
    \/ ProbeSvelteCheck
    \/ ProbeEslint
    \/ ClassifyDepFailed
    \/ Exists165
    \/ Stat165
    \/ Exists175
    \/ Exists187
    \/ Stat187
    \/ TypeCheck
    \/ Lint
    \/ CliLoop
    \/ CliAfterTarget
    \/ FsChange

SpecRace == InitRace /\ [][NextRace]_vars

\* the runs of the shell wrapper, up to the hook's choice of its mode
InitWrapper == InitWith(0, ShStarts)

NextWrapper ==
    \/ ShSelect
    \/ ShCompile
    \/ ShExecNode
    \/ Main

SpecWrapper == InitWrapper /\ [][NextWrapper]_vars

(***************************************************************************)
(* The aggregation of two tool outputs, on longer outputs                  *)
(*                                                                         *)
(* processTarget from line 246 on is a function of the two outputs and the *)
(* two exit codes.  Here it is applied, and handleHookMode after it, to    *)
(* type-checker outputs of up to MaxReportLines lines, for a Write request *)
(* on a.ts whose tools have both run.                                      *)
(***************************************************************************)
ReportLines == { <<"Error:", "e">>, <<"at", "Error:", "m">>, <<"ctx">> }
ReportTexts == SeqsUpTo(ReportLines, MaxReportLines)

\* a summary line of a run with warnings only, after which ESLint exits 0
EsWarnSummary ==
    <<Cross, "2", "problems", "(", "0", "errors", ",", "2", "warnings", ")">>
LintTexts == SeqsUpTo(EsLines \cup {EsWarnSummary}, MaxOutLines)

InitText ==
    /\ args = <<>>
    /\ isTTY = FALSE
    /\ stdinRest = <<>>
    /\ fsKind = FileSystem
    /\ now = 0
    /\ LOG_FILE = Day(0)
    /\ pc = "aggregate"
    /\ mode = "hook"
    /\ argIdx = 1
    /\ hasErrors = FALSE
    /\ inputData = Request(WriteTok, TStr(P_a_ts))
    /\ \E tcOut \in ReportTexts, tcThrew \in BOOLEAN,
          esOut \in LintTexts, esThrew \in BOOLEAN :
         pt = [NewFrame(P_a_ts) EXCEPT
                 !.isSingleFile = TRUE,
                 !.svelteCheckOutput = tcOut,
                 !.svelteCheckExitCode = IF tcThrew THEN 1 ELSE 0,
                 !.eslintOutput = esOut,
                 !.eslintExitCode = IF esThrew THEN 1 ELSE 0]
    /\ result = NoResponse
    /\ dependencyCheckCache =
          [set |-> TRUE, timestamp |-> 0, result |-> DepResult(FALSE, "")]
    /\ events = <<>>
    /\ logLines = <<>>
    /\ exitCode = NotExited
    /\ fault = FALSE
    /\ running = {}
    /\ sh = ShDirect

\* processTarget from the counting of markers to the building of its
\* result, on the outputs and exit codes in the frame; the frame is kept
Aggregate ==
    /\ pc = "aggregate"
    /\ LET counts == LintCounts(pt.eslintExitCode # 0, pt.eslintOutput)
           f == [pt EXCEPT !.eslintErrorCount = counts.errors,
                           !.eslintWarningCount = counts.warnings]
       IN /\ pt' = f
          /\ result' = FinishResult(f)
          /\ logLines' = logLines \o FinishLog(f)
    /\ pc' = "ret"
    /\ UNCHANGED <<inputs, sh, running, stdinRest, now, mode, argIdx, hasErrors,
                   inputData, dependencyCheckCache, events, exitCode, fault>>

NextText ==
    \/ Aggregate
    \/ HookAfterTarget

SpecText == InitText /\ [][NextText]_vars

(***************************************************************************)
(* What a state shows of the run so far                                    *)
(***************************************************************************)
Done == pc = "done"

\* the JSON documents written to standard output, in order
StdoutDocs ==
    LET es == SelectSeq(events, LAMBDA e : e.ch = "stdout")
    IN [ i \in 1..Len(es) |-> es[i].doc ]

\* the processes started, in order
Spawns == SelectSeq(events, LAMBDA e : e.ch = "spawn")

ProbeCommands == {"which pnpm", "pnpm list svelte-check", "pnpm list eslint"}

\* a probe command failed
PreflightFailed ==
    \E i \in 1..Len(events) :
        events[i].ch = "spawn" /\ events[i].what \in ProbeCommands /\ events[i].n = 1

\* a type checker or linter process ended with a nonzero status
AnalysisToolFailed ==
    \E i \in 1..Len(events) :
        events[i].ch = "spawn" /\ events[i].what \notin ProbeCommands /\ events[i].n = 1

\* the type checker could not be run (command not found)
InvocationFailed ==
    \E i \in 1..Len(events) :
        events[i].ch = "stderr" /\ events[i].what = "Failed to run svelte-check!"

BlockWritten ==
    \E i \in 1..Len(events) :
        events[i].ch = "stdout" /\ events[i].doc.decision = "block"

SomeDocFailed == \E i \in 1..Len(StdoutDocs) : StdoutDocs[i].success = "false"

\* the value a string or number lexeme denotes
TokValue(tok) == JV(tok.k, tok.v, <<>>)

(***************************************************************************)
(* C1..C10                                                                 *)
(***************************************************************************)

\* C1: when a dependency probe has failed, the run ends with the record
\* {success: false, error: 'Missing required dependencies...'} on standard
\* output and exit code 1, in every mode, and never with a block decision or
\* exit code 2.
C1_DependencyFailureNeverBlocks ==
    (Done /\ PreflightFailed) =>
        /\ exitCode = 1
        /\ ~BlockWritten
        /\ \E i \in 1..Len(StdoutDocs) :
              /\ StdoutDocs[i].success = "false"
              /\ StdoutDocs[i].error = MissingDepsError

\* C2: the process exits with code 2 only if a type checker or linter ran
\* and returned a nonzero status; a failed preflight or a type checker that
\* could not be run never lead to exit code 2.
C2_Exit2OnlyOnFindings ==
    exitCode = 2 => (AnalysisToolFailed /\ ~PreflightFailed /\ ~InvocationFailed)

\* C3: every run ends with an exit code of 0, 1 or 2 after a JSON response
\* was written to standard output, and never through an uncaught exception.
C3_ExitCodeTotality ==
    Done => (exitCode \in {0, 1, 2} /\ Len(StdoutDocs) >= 1 /\ ~fault)

\* C4: in hook mode a block response was written if and only if the exit
\* code is 2, and the run then ends with the block response on standard
\* output followed by the summary on standard error.
C4_BlockIffExit2 ==
    mode = "hook" =>
        /\ BlockWritten <=> exitCode = 2
        /\ exitCode = 2 =>
             LET n == Len(events) IN
             /\ Done
             /\ n >= 2
             /\ events[n - 1].ch = "stdout"
             /\ events[n - 1].doc.decision = "block"
             /\ events[n].ch = "stderr"
             /\ events[n].what = "Checks failed with total errors"
             /\ Len(StdoutDocs) = 1

C4_Witness == mode = "hook" /\ exitCode = 2 /\ BlockWritten /\ AnalysisToolFailed

\* requests (and other non-null JSON documents) whose tool_name is none of
\* Write, Edit, MultiEdit, with the tool_name each carries
NonEditRequests ==
    { [text |-> Request(TStr(<<"Read">>), TStr(p)), tool |-> JStr(<<"Read">>)] :
        p \in {P_a_ts, P_x_png, P_gone_ts} }
    \cup { [text |-> Request(TStr(<<"write">>), TStr(P_a_ts)), tool |-> JStr(<<"write">>)],
           [text |-> Request(TNum(<<"1">>), TStr(P_a_ts)), tool |-> JNum(<<"1">>)],
           [text |-> Request(TNull, TStr(P_a_ts)), tool |-> JNull],
           [text |-> <<LB, RB>>, tool |-> Undefined],
           [text |-> <<LB, TStr(K_tool_input), Colon, LB, TStr(K_file_path), Colon,
                       TStr(P_a_ts), RB, RB>>, tool |-> Undefined],
           [text |-> <<TNum(<<"1">>)>>, tool |-> Undefined],
           [text |-> <<TTrue>>, tool |-> Undefined],
           [text |-> <<TStr(<<"Write">>)>>, tool |-> Undefined] }

\* C5: in hook mode a parsed request whose tool_name is not exactly Write,
\* Edit or MultiEdit gets the skip record {tool, skipped, reason} and exit
\* code 0, whatever its file_path; no probe and no tool is run for it.
C5_OtherToolsSkipped ==
    \A r \in NonEditRequests :
        (mode = "hook" /\ stdinRest = <<>> /\ inputData = r.text) =>
            /\ pc \in {"hook_read", "done"}
            /\ Spawns = <<>>
            /\ dependencyCheckCache = NoCache
            /\ Done =>
                 /\ exitCode = 0
                 /\ StdoutDocs = <<SkipDoc(Undefined, r.tool, "not a file editing tool")>>

C5_Witness ==
    /\ Done
    /\ inputData = Request(TStr(<<"Read">>), TStr(P_gone_ts))
    /\ exitCode = 0
    /\ Len(StdoutDocs) = 1 /\ StdoutDocs[1].skipped

\* file_path values without a supported suffix: existing and missing files,
\* a directory, a name that is just "ts", a number
UnsupportedFilePaths ==
    { TStr(p) : p \in {P_x_png, P_m_mts, P_ts, P_gone_png, P_src} }
    \cup { TNum(<<"1">>) }

\* C6: in hook mode a Write / Edit / MultiEdit request whose file_path does
\* not end in .ts, .tsx, .js, .jsx or .svelte gets the record {tool, target,
\* skipped, reason: 'not a TypeScript/Svelte file'} and exit code 0, whether
\* or not the file exists; no probe and no tool is run for it.
C6_UnsupportedSuffixSkipped ==
    \A t \in EditTools, fp \in UnsupportedFilePaths :
        (mode = "hook" /\ stdinRest = <<>> /\ inputData = Request(TStr(t), fp)) =>
            /\ pc \in {"hook_read", "done"}
            /\ Spawns = <<>>
            /\ Done =>
                 /\ exitCode = 0
                 /\ StdoutDocs = <<SkipDoc(TokValue(fp), JStr(t),
                                           "not a TypeScript/Svelte file")>>

C6_Witness ==
    /\ Done
    /\ inputData = Request(WriteTok, TStr(P_gone_png))
    /\ exitCode = 0
    /\ Len(StdoutDocs) = 1 /\ StdoutDocs[1].skipped

\* non-empty payloads that are no JSON document
MalformedTexts ==
    { SubSeq(Request(WriteTok, TStr(P_a_ts)), 1, k) : k \in {1, 4, 12} }
    \cup { <<RB>>, <<TNull, TNull>>, <<LB, Comma, RB>> }

\* C7: in hook mode a payload on which JSON.parse fails gets the error
\* record and exit code 1; neither it nor an empty payload leads to exit
\* code 2, a block decision, a probe or a tool run.
C7_MalformedInputExits1 ==
    (mode = "hook" /\ stdinRest = <<>> /\ inputData \in MalformedTexts \cup { <<>> }) =>
        /\ pc \in {"hook_read", "done"}
        /\ Spawns = <<>>
        /\ ~BlockWritten
        /\ exitCode # 2
        /\ (Done /\ inputData # <<>>) =>
             /\ exitCode = 1
             /\ StdoutDocs = <<ErrorDoc("Invalid JSON input")>>

C7_Witness ==
    /\ Done
    /\ inputData = SubSeq(Request(WriteTok, TStr(P_a_ts)), 1, 12)
    /\ exitCode = 1
    /\ Len(StdoutDocs) = 1

SupportedExistingFiles == {P_a_ts, P_b_tsx, P_c_svelte, P_d_js, P_e_jsx}

\* every process of the run ended with status 0
AllProcessesSucceeded == \A i \in 1..Len(Spawns) : Spawns[i].n = 0

\* C8: in hook mode a Write / Edit / MultiEdit request on an existing
\* supported file, with every probe succeeding and the type checker and the
\* linter both exiting 0, gets the success record {target, success: true}
\* without a decision, and exit code 0.
C8_PassingChecksAllow ==
    \A t \in EditTools, p \in SupportedExistingFiles :
        (Done /\ mode = "hook" /\ inputData = Request(TStr(t), TStr(p))
              /\ AllProcessesSucceeded) =>
            /\ Len(Spawns) = 5
            /\ exitCode = 0
            /\ Len(StdoutDocs) = 1
            /\ StdoutDocs[1].target = JStr(p)
            /\ StdoutDocs[1].success = "true"
            /\ StdoutDocs[1].decision = "absent"
            /\ StdoutDocs[1].svelte_check.exit_code = 0
            /\ StdoutDocs[1].eslint.exit_code = 0

C8_Witness ==
    /\ Done
    /\ mode = "hook"
    /\ inputData = Request(WriteTok, TStr(P_b_tsx))
    /\ AllProcessesSucceeded
    /\ Len(Spawns) = 5
    /\ StdoutDocs[1].svelte_check.error_count > 0

\* the number of processTarget calls begun
TargetsBegun ==
    Len(SelectSeq(logLines, LAMBDA l : l = L("INFO", "Processing target")))

\* C9: in CLI mode the targets are processed one by one in argument order
\* and one document is printed for each, whatever the earlier ones gave; the
\* exit code is 1 if some document has success = false and 0 otherwise.
C9_CliOneDocumentPerArgument ==
    mode = "cli" =>
        /\ Len(StdoutDocs) = argIdx - 1
        /\ TargetsBegun \in {argIdx - 1, argIdx}
        /\ \A i \in 1..Len(StdoutDocs) : StdoutDocs[i].target = JStr(args[i])
        /\ \A i \in 1..Len(events) : events[i].ch = "stdout" => events[i].pretty
        /\ Done =>
             /\ Len(StdoutDocs) = Len(args)
             /\ TargetsBegun = Len(args)
             /\ exitCode = IF SomeDocFailed THEN 1 ELSE 0

C9_Witness ==
    /\ Done
    /\ mode = "cli"
    /\ Len(args) = 2
    /\ Len(StdoutDocs) = 2
    /\ StdoutDocs[1].success = "false"
    /\ StdoutDocs[2].success = "true"
    /\ exitCode = 1

\* C10: exit code 2 and the block decision occur in hook mode only; in CLI
\* and interactive mode the exit code is 1 if a processed target has
\* success = false and 0 otherwise.
C10_Exit2OnlyInHookMode ==
    /\ exitCode = 2 => mode = "hook"
    /\ BlockWritten => mode = "hook"
    /\ (Done /\ mode \in {"cli", "interactive"}) =>
         /\ exitCode \in {0, 1}
         /\ exitCode = 1 <=> SomeDocFailed

C10_Witness ==
    /\ Done
    /\ mode = "interactive"
    /\ exitCode = 1
    /\ AnalysisToolFailed

(***************************************************************************)
(* C11..C20                                                                *)
(***************************************************************************)

\* the commands that run a type checker
TypeCheckCommands ==
    {"pnpm exec tsc --noEmit <target>",
     "pnpm exec svelte-check (cwd: dirname(target))",
     "pnpm exec svelte-check"}

\* the type checker and linter processes started, in order
AnalysisSpawns ==
    SelectSeq(events, LAMBDA e : e.ch = "spawn" /\ e.what \notin ProbeCommands)

\* the run of one command-line argument has printed its document
Cli1Printed == mode = "cli" /\ Len(args) = 1 /\ Len(StdoutDocs) = 1

\* C11: an outcome of processTarget that is not a skip has success = true
\* if and only if every process of the call ended with status 0, which for
\* an outcome with tool records means that both recorded exit codes are 0;
\* an outcome without tool records is a failure.  The error and warning
\* counts play no part: markers with exit codes 0 give success, a nonzero
\* exit code without markers gives failure.
C11_SuccessIffExitCodesZero ==
    (Cli1Printed /\ ~StdoutDocs[1].skipped) =>
        LET r == StdoutDocs[1] IN
        /\ r.success \in {"true", "false"}
        /\ r.success = "true" <=> AllProcessesSucceeded
        /\ r.svelte_check.present = r.eslint.present
        /\ r.svelte_check.present =>
              /\ r.success = "true" <=>
                    (r.svelte_check.exit_code = 0 /\ r.eslint.exit_code = 0)
              /\ r.svelte_check.exit_code = 0 <=> AnalysisSpawns[1].n = 0
              /\ r.eslint.exit_code = 0 <=>
                    \A i \in 2..Len(AnalysisSpawns) : AnalysisSpawns[i].n = 0
        /\ ~r.svelte_check.present => r.success = "false"

C11_Witness ==
    /\ Cli1Printed
    /\ StdoutDocs[1].success = "false"
    /\ StdoutDocs[1].svelte_check.present
    /\ StdoutDocs[1].svelte_check.error_count = 0
    /\ StdoutDocs[1].svelte_check.warning_count = 0
    /\ StdoutDocs[1].eslint.error_count = 0
    /\ StdoutDocs[1].eslint.exit_code = 0

\* the log lines in which processTarget reports its totals
TotalLines == SelectSeq(logLines, LAMBDA l : l.msg = "Total errors and warnings")

\* C12: the totals processTarget computes are the sums of the two tools'
\* error counts and of their warning counts, a linter that was not run
\* counting 0; the total the blocking path of hook mode reports is the
\* same number.
C12_TotalsAreSums ==
    (mode = "hook" /\ pc \in {"ret", "done"} /\ result.svelte_check.present) =>
        /\ Len(TotalLines) = 1
        /\ TotalLines[1].errors =
              result.svelte_check.error_count + result.eslint.error_count
        /\ TotalLines[1].warnings =
              result.svelte_check.warning_count + result.eslint.warning_count
        /\ Len(AnalysisSpawns) = 1 =>
              (result.eslint.error_count = 0 /\ result.eslint.warning_count = 0)
        /\ (Done /\ exitCode = 2) =>
              /\ events[Len(events)].ch = "stderr"
              /\ events[Len(events)].n = TotalLines[1].errors

C12_Witness ==
    /\ Done
    /\ mode = "hook"
    /\ exitCode = 2
    /\ result.svelte_check.error_count = 1
    /\ result.eslint.error_count = 2
    /\ events[Len(events)].n = 3

\* the probes of the run so far
ProbeSpawns ==
    SelectSeq(events, LAMBDA e : e.ch = "spawn" /\ e.what \in ProbeCommands)

ProbeStates == {"probe_pnpm", "probe_svelte_check", "probe_eslint"}

\* C13: checkDependencies answers from the cache exactly when a cached
\* status exists and now - timestamp is strictly less than the TTL of 5
\* minutes: it then returns the cached status as it is, runs no probe and
\* leaves the cache alone; otherwise it probes again, and the verdict of
\* that probing (each probe a process that is started and then waited for)
\* replaces the cached status and its timestamp.
C13_CacheWithinTTL ==
    [][ /\ pc = "pt_deps" =>
             IF /\ dependencyCheckCache.set
                /\ now - dependencyCheckCache.timestamp < CACHE_DURATION
             THEN /\ pc' = "pt_classify"
                  /\ pt'.depCheck = dependencyCheckCache.result
                  /\ events' = events
                  /\ dependencyCheckCache' = dependencyCheckCache
             ELSE /\ pc' = "probe_pnpm"
                  /\ events' = events
        /\ (pc \in ProbeStates /\ running = {}) =>
             /\ running' # {}
             /\ pc' = pc
             /\ events' = events
             /\ dependencyCheckCache' = dependencyCheckCache
        /\ (pc \in ProbeStates /\ running # {}) =>
             /\ running' = {}
             /\ Len(events') = Len(events) + 1
             /\ events'[Len(events')].ch = "spawn"
             /\ pc' = "pt_classify" =>
                  /\ dependencyCheckCache'.set
                  /\ dependencyCheckCache'.timestamp = now
                  /\ dependencyCheckCache'.result = pt'.depCheck
             /\ pc' # "pt_classify" => dependencyCheckCache' = dependencyCheckCache
        /\ pc \notin ProbeStates => dependencyCheckCache' = dependencyCheckCache
      ]_vars

\* the second call of a run comes one minute before expiry and is answered
\* from the cache: the only probes are the three of the first call
C13_Witness ==
    /\ mode = "cli"
    /\ argIdx = 2
    /\ pc = "pt_classify"
    /\ now = CACHE_DURATION - 1
    /\ dependencyCheckCache.timestamp = 0
    /\ Len(ProbeSpawns) = 3
    /\ pt.depCheck = dependencyCheckCache.result

\* the second call of a run comes at expiry: the probes ran again and their
\* verdict and its time replaced the cached ones
C13_ExpiryReached ==
    /\ mode = "cli"
    /\ argIdx = 2
    /\ pc = "pt_classify"
    /\ now = CACHE_DURATION
    /\ dependencyCheckCache.timestamp = CACHE_DURATION
    /\ dependencyCheckCache.result.hasErrors
    /\ Len(ProbeSpawns) = 4

\* the probes in their order, the probe state before each, the tool each
\* remediation message names
ProbeOrder == <<"which pnpm", "pnpm list svelte-check", "pnpm list eslint">>
ProbeStateOrder == <<"probe_pnpm", "probe_svelte_check", "probe_eslint">>
ProbeTools == <<"pnpm", "svelte-check", "eslint">>

\* C14: on a cache miss the probes run in the order pnpm, svelte-check,
\* eslint; the first failing probe ends the probing, and the status
\* returned then has hasErrors = true and the message that names the tool
\* of that probe; hasErrors = false is returned exactly when all three
\* probes succeeded.  (A run in hook mode calls checkDependencies once,
\* with an empty cache.)
C14_ProbeOrder ==
    mode = "hook" =>
        LET ps == ProbeSpawns
            k == Len(ProbeSpawns) IN
        /\ k <= 3
        /\ \A i \in 1..k : ps[i].what = ProbeOrder[i]
        /\ \A i \in 1..(k - 1) : ps[i].n = 0
        /\ pc \in ProbeStates =>
              /\ k < 3
              /\ pc = ProbeStateOrder[k + 1]
              /\ \A i \in 1..k : ps[i].n = 0
        /\ pc = "pt_classify" =>
              /\ k >= 1
              /\ ps[k].n = 1 => pt.depCheck = DepResult(TRUE, ProbeTools[k])
              /\ ps[k].n = 0 => (k = 3 /\ pt.depCheck = DepResult(FALSE, ""))
              /\ dependencyCheckCache.result = pt.depCheck
        /\ (pc \in {"ret", "done"} /\ k >= 1 /\ ps[k].n = 1) =>
              \E i \in 1..Len(events) :
                  events[i].ch = "stderr" /\ events[i].what = ProbeTools[k]

C14_Witness ==
    /\ mode = "hook"
    /\ pc = "pt_classify"
    /\ Len(ProbeSpawns) = 2
    /\ ProbeSpawns[2].n = 1
    /\ pt.depCheck.hasErrors
    /\ pt.depCheck.message = "svelte-check"

\* the events of the processTarget call that is running or has just
\* returned: those after the last document printed
CallEvents ==
    LET printed == { i \in 1..Len(events) : events[i].ch = "stdout" }
        from == IF printed = {} THEN 1
                ELSE 1 + CHOOSE i \in printed : \A j \in printed : j <= i
    IN SubSeq(events, from, Len(events))

\* the last probe run before event i was the third one and succeeded
LastVerdictOk(i) ==
    LET before == { j \in 1..(i - 1) :
                      events[j].ch = "spawn" /\ events[j].what \in ProbeCommands } IN
    /\ before # {}
    /\ LET j == CHOOSE x \in before : \A y \in before : y <= x IN
       /\ events[j].what = "pnpm list eslint"
       /\ events[j].n = 0

\* C15: a type checker or linter is started only after checkDependencies
\* gave an ok verdict in the same processTarget call, from three fresh
\* probes or from a cached status younger than the TTL; when the verdict
\* has errors the call returns the missing-dependencies record and no
\* analysis tool was started in it.
C15_PreflightBeforeTools ==
    /\ pc \in {"typecheck", "lint"} =>
          /\ dependencyCheckCache.set
          /\ ~dependencyCheckCache.result.hasErrors
          /\ ~pt.depCheck.hasErrors
    /\ pc = "typecheck" => now - dependencyCheckCache.timestamp < CACHE_DURATION
    /\ \A i \in 1..Len(events) :
          (events[i].ch = "spawn" /\ events[i].what \notin ProbeCommands) =>
              LastVerdictOk(i)
    /\ (pc = "ret" /\ ProbeSpawns # <<>> /\ ProbeSpawns[Len(ProbeSpawns)].n = 1) =>
          /\ result.success = "false"
          /\ result.error = MissingDepsError
          /\ ~result.svelte_check.present
          /\ \A i \in 1..Len(CallEvents) :
                CallEvents[i].ch = "spawn" => CallEvents[i].what \in ProbeCommands

\* the second call of a run has started the type checker on a cached ok
\* verdict
C15_Witness ==
    /\ mode = "cli"
    /\ argIdx = 2
    /\ pc = "lint"
    /\ Len(ProbeSpawns) = 3
    /\ Len(StdoutDocs) = 1
    /\ \E i \in 1..Len(CallEvents) : CallEvents[i].what \in TypeCheckCommands

\* existing regular files without a supported suffix; paths that are no
\* regular file: directories and missing paths
UnsupportedExistingFiles == {P_x_png, P_m_mts, P_ts}
MissingPaths == {P_gone_ts, P_gone_png}
Directories == {P_lib_ts, P_src, P_dot}

\* the three probes ran and succeeded
PreflightPassed ==
    Len(ProbeSpawns) = 3 /\ \A i \in 1..3 : ProbeSpawns[i].n = 0

\* the linter was started
Linted == \E i \in 1..Len(events) : events[i].ch = "spawn" /\ events[i].what = LintCommand

\* C16: processTarget never gives the skipped outcome to an existing
\* regular file whose name ends in .ts, .tsx, .js, .jsx or .svelte; after a
\* passed preflight it gives an existing regular file of any other name the
\* outcome {target, skipped, reason: 'not a TypeScript/Svelte file'} and
\* starts no analysis tool for it.
C16_ClassificationBySuffix ==
    (mode = "cli" /\ Len(args) = 1) =>
        /\ \A p \in SupportedExistingFiles :
              (args = <<p>> /\ Len(StdoutDocs) = 1) =>
                  (~StdoutDocs[1].skipped /\ StdoutDocs[1].target = JStr(p))
        /\ \A p \in UnsupportedExistingFiles :
              args = <<p>> =>
                  /\ AnalysisSpawns = <<>>
                  /\ (Len(StdoutDocs) = 1 /\ PreflightPassed) =>
                        StdoutDocs[1] =
                            SkipDoc(JStr(p), Undefined, "not a TypeScript/Svelte file")

C16_Witness ==
    /\ Cli1Printed
    /\ args = <<P_m_mts>>
    /\ PreflightPassed
    /\ StdoutDocs[1].skipped

\* C17: after a passed preflight a target path that does not exist gets
\* the outcome {target, skipped, reason: 'file does not exist'} and no
\* type checker or linter is started for it.
C17_MissingFileSkipped ==
    \A p \in MissingPaths :
        (mode = "cli" /\ args = <<p>>) =>
            /\ AnalysisSpawns = <<>>
            /\ (Len(StdoutDocs) = 1 /\ PreflightPassed) =>
                  StdoutDocs[1] = SkipDoc(JStr(p), Undefined, "file does not exist")

\* C18: at most one type check is started per target; the unrestricted
\* whole-project check is started only for a target that is no existing
\* regular file; an existing file named .ts, .tsx, .js or .jsx gets the
\* narrow check of just that file, an existing .svelte file the
\* svelte-check run in the file's directory.
C18_TypeCheckStrategy ==
    (mode = "cli" /\ Len(args) = 1) =>
        LET tcs == SelectSeq(events,
                     LAMBDA e : e.ch = "spawn" /\ e.what \in TypeCheckCommands) IN
        /\ Len(tcs) <= 1
        /\ (Len(StdoutDocs) = 1 /\ StdoutDocs[1].svelte_check.present) => Len(tcs) = 1
        /\ \A i \in 1..Len(tcs) :
              /\ tcs[i].what = "pnpm exec svelte-check" =>
                    args[1] \in Directories \cup MissingPaths
              /\ args[1] \in {P_a_ts, P_b_tsx, P_d_js, P_e_jsx} =>
                    tcs[i].what = "pnpm exec tsc --noEmit <target>"
              /\ args[1] = P_c_svelte =>
                    tcs[i].what = "pnpm exec svelte-check (cwd: dirname(target))"

\* C19: the linter is started only for an existing regular file with a
\* supported suffix, and for such a file it is started whenever the call
\* gets as far as its tool records; for a directory or a missing path it is
\* never started, and the linter's recorded exit code and counts are 0.
C19_LinterOnlyForSupportedFile ==
    (mode = "cli" /\ Len(args) = 1) =>
        /\ Linted => args[1] \in SupportedExistingFiles
        /\ args[1] \in Directories \cup MissingPaths => ~Linted
        /\ Len(SelectSeq(events, LAMBDA e : e.what = LintCommand)) <= 1
        /\ (Len(StdoutDocs) = 1 /\ StdoutDocs[1].svelte_check.present) =>
              /\ Linted <=> args[1] \in SupportedExistingFiles
              /\ ~Linted =>
                    /\ StdoutDocs[1].eslint.present
                    /\ StdoutDocs[1].eslint.exit_code = 0
                    /\ StdoutDocs[1].eslint.error_count = 0
                    /\ StdoutDocs[1].eslint.warning_count = 0

C19_Witness ==
    /\ Cli1Printed
    /\ args = <<P_lib_ts>>
    /\ StdoutDocs[1].svelte_check.present
    /\ StdoutDocs[1].svelte_check.exit_code = 0
    /\ ~Linted

\* C20: when a type checker or linter failed and left nothing on its
\* standard output, the outcome is success: false with an error message
\* and without tool records built from counting markers in the empty
\* output.
C20_InvocationFailureReported ==
    (Cli1Printed /\ \E i \in 1..Len(AnalysisSpawns) : AnalysisSpawns[i].quiet) =>
        /\ StdoutDocs[1].success = "false"
        /\ StdoutDocs[1].error # ""
        /\ ~StdoutDocs[1].svelte_check.present
        /\ ~StdoutDocs[1].eslint.present

(***************************************************************************)
(* C21..C30                                                                *)
(***************************************************************************)

\* the log lines by which each branch of main announces itself
ModeLines ==
    [cli |-> L("INFO", "Running in CLI mode"),
     interactive |-> L("INFO", "Running in CLI mode (no args)"),
     hook |-> L("INFO", "Running in hook mode")]

\* the modes whose branch of main has been entered so far
ModesEntered ==
    { m \in {"cli", "interactive", "hook"} :
        \E i \in 1..Len(logLines) : logLines[i] = ModeLines[m] }

\* C21: main enters exactly one branch, once: the CLI branch when there
\* are arguments, whatever standard input is; without arguments the
\* interactive branch when standard input is a terminal, which runs the
\* pipeline once, on '.'; otherwise the hook branch.  The pipeline of
\* another mode is never run: standard input is read in hook mode only, the
\* argument loop runs in CLI mode only.
C21_OneModePerProcess ==
    /\ mode = "none" <=> pc = "main"
    /\ mode = "none" => ModesEntered = {}
    /\ mode # "none" =>
          /\ ModesEntered = {mode}
          /\ Len(SelectSeq(logLines, LAMBDA l : l = ModeLines[mode])) = 1
          /\ mode = "cli" <=> Len(args) > 0
          /\ mode = "interactive" <=> (Len(args) = 0 /\ isTTY)
          /\ mode = "hook" <=> (Len(args) = 0 /\ ~isTTY)
    /\ mode = "interactive" =>
          /\ TargetsBegun <= 1
          /\ Len(StdoutDocs) <= 1
          /\ pc \notin {"cli_loop", "hook_read"}
          /\ Done => (/\ TargetsBegun = 1
                      /\ Len(StdoutDocs) = 1
                      /\ StdoutDocs[1].target = JStr(<<".">>))
    /\ mode # "hook" => (inputData = <<>> /\ pc # "hook_read")
    /\ mode # "cli" => (argIdx = 1 /\ pc # "cli_loop")
    /\ mode = "hook" => TargetsBegun <= 1

\* a run with an argument and a terminal as standard input ended in CLI mode
C21_Witness ==
    /\ Done
    /\ mode = "cli"
    /\ isTTY
    /\ Len(StdoutDocs) = 1

\* the stage of the pipeline a command belongs to
Stage(cmd) ==
    IF cmd \in ProbeCommands THEN 1
    ELSE IF cmd \in TypeCheckCommands THEN 2 ELSE 3

\* the processes of the current call that have exited, in order
CallSpawns == SelectSeq(CallEvents, LAMBDA e : e.ch = "spawn")

\* C22: at most one child process is running at any time, and it is the
\* one of the step the pipeline is at; the linter is started only after the
\* type checker has exited; within a call the processes come in the order
\* probes, type checker, linter.
C22_OneProcessAtATime ==
    /\ Cardinality(running) <= 1
    /\ running # {} => pc \in ProbeStates \cup {"typecheck", "lint"}
    /\ \A c \in running :
          /\ pc \in ProbeStates <=> c \in ProbeCommands
          /\ pc = "typecheck" <=> c \in TypeCheckCommands
          /\ pc = "lint" <=> c = LintCommand
          /\ \A i \in 1..Len(CallSpawns) : Stage(CallSpawns[i].what) < Stage(c)
                                            \/ (Stage(c) = 1 /\ CallSpawns[i].what # c)
    /\ LintCommand \in running =>
          /\ running \cap TypeCheckCommands = {}
          /\ \E i \in 1..Len(CallSpawns) : CallSpawns[i].what \in TypeCheckCommands
    /\ \A i, j \in 1..Len(CallSpawns) :
          i < j => Stage(CallSpawns[i].what) <= Stage(CallSpawns[j].what)

\* the linter is running after a type checker that failed
C22_Witness ==
    /\ mode = "hook"
    /\ running = {LintCommand}
    /\ Len(CallSpawns) = 4
    /\ CallSpawns[4].what = "pnpm exec tsc --noEmit <target>"
    /\ CallSpawns[4].n = 1

\* how often a command was started: the exited runs and the running one
TimesStarted(cmd) ==
    Len(SelectSeq(events, LAMBDA e : e.ch = "spawn" /\ e.what = cmd))
    + (IF cmd \in running THEN 1 ELSE 0)

\* C23: while one target is processed every probe command, the type
\* checker and the linter are each started at most once, whatever their
\* exit status; a process that failed is reported by a document with
\* success = false and is not started again.
C23_NoRetry ==
    (mode = "cli" /\ Len(args) = 1) =>
        /\ \A c \in ProbeCommands \cup TypeCheckCommands \cup {LintCommand} :
              TimesStarted(c) <= 1
        /\ Len(SelectSeq(events, LAMBDA e : e.what \in TypeCheckCommands)) <= 1
        /\ (Done /\ \E i \in 1..Len(Spawns) : Spawns[i].n = 1) =>
              /\ Len(StdoutDocs) = 1
              /\ StdoutDocs[1].success = "false"
              /\ exitCode = 1

C23_Witness ==
    /\ Done
    /\ mode = "cli"
    /\ Len(args) = 1
    /\ Len(AnalysisSpawns) = 2
    /\ AnalysisSpawns[1].n = 1
    /\ AnalysisSpawns[2].n = 1

\* the payload: what has arrived followed by what is still to arrive
WholeInput == inputData \o Flatten(stdinRest)

\* nothing but the reading of standard input has happened in hook mode
OnlyRead ==
    /\ events = <<>>
    /\ running = {}
    /\ dependencyCheckCache = NoCache
    /\ result = NoResponse
    /\ pt = NewFrame(<<>>)
    /\ exitCode = NotExited
    /\ now = 0
    /\ logLines = <<L("INFO", "===="), L("INFO", "started"),
                    L("INFO", "Running in hook mode"),
                    L("INFO", "completed"), L("INFO", "====")>>

\* C24: in hook mode, however the payload is cut into chunks, a 'data'
\* event only appends its chunk to the buffer, so that the buffer followed
\* by the chunks to come is the payload at every moment; until the end of
\* the stream nothing is parsed, probed, run or printed, and at the end of
\* the stream the buffer is the whole payload and the rest of the state is
\* the same for every chunking, that of the payload arriving in one chunk.
C24_ChunkingIsInvisible ==
    /\ [](mode = "hook" =>
            /\ pc = "hook_read" => OnlyRead
            /\ pc # "hook_read" => stdinRest = <<>>
            /\ \A i \in 1..Len(stdinRest) : stdinRest[i] # <<>>)
    /\ [][ /\ WholeInput' = WholeInput
           /\ mode' = "hook" =>
                 /\ Len(stdinRest') <= Len(stdinRest)
                 /\ Len(inputData') >= Len(inputData)
           /\ (pc = "hook_read" /\ stdinRest # <<>>) =>
                 /\ pc' = "hook_read"
                 /\ inputData' = inputData \o Head(stdinRest)
                 /\ stdinRest' = Tail(stdinRest)
         ]_vars

\* the first of two chunks has arrived: half a request is in the buffer
C24_Witness ==
    /\ mode = "hook"
    /\ pc = "hook_read"
    /\ inputData = SubSeq(Request(WriteTok, TStr(P_a_ts)), 1, 5)
    /\ Len(stdinRest) = 1
    /\ WholeInput = Request(WriteTok, TStr(P_a_ts))

\* the indices of the lines that begin with 'Error:'
ErrorLineIdx(text) ==
    { i \in 1..Len(text) : Len(text[i]) >= 1 /\ text[i][1] = "Error:" }

\* the n-th of them
NthErrorLine(text, n) ==
    CHOOSE i \in ErrorLineIdx(text) :
        Cardinality({ j \in ErrorLineIdx(text) : j < i }) = n - 1

\* the line before line i, line i, and the two lines after it, as far as
\* they exist
ContextOf(text, i) ==
    SubSeq(text, IF i > 1 THEN i - 1 ELSE 1,
                 IF i + 2 < Len(text) THEN i + 2 ELSE Len(text))

RECURSIVE WindowsFrom(_, _, _)
\* the windows of the n-th to the last-th error line, a '--' line between
WindowsFrom(text, n, last) ==
    IF n > last THEN <<>>
    ELSE ContextOf(text, NthErrorLine(text, n))
         \o (IF n < last THEN << <<"--">> >> ELSE <<>>)
         \o WindowsFrom(text, n + 1, last)

\* the excerpt the claims describe: the windows of the first 5 error lines
ExcerptOf(text) ==
    LET k == Cardinality(ErrorLineIdx(text))
        kept == IF k < 5 THEN k ELSE 5
    IN IF kept = 0 THEN <<<<>>>> ELSE WindowsFrom(text, 1, kept)

\* C25: in hook mode, when the type checker exited nonzero and k >= 1
\* lines of its output begin with 'Error:', the run ends with exit code 2
\* and a block response whose reason has the part 'TypeScript Errors (k)'
\* with the windows of the first min(k, 5) error lines.
C25_BlockReasonCountsErrorLines ==
    LET k == Cardinality(ErrorLineIdx(pt.svelteCheckOutput)) IN
    (Done /\ mode = "hook" /\ pt.svelteCheckExitCode # 0 /\ k >= 1) =>
        /\ exitCode = 2
        /\ Len(StdoutDocs) = 1
        /\ StdoutDocs[1].decision = "block"
        /\ \E i \in 1..Len(StdoutDocs[1].reason) :
              StdoutDocs[1].reason[i] =
                  Part("TypeScript Errors", k, ExcerptOf(pt.svelteCheckOutput))

\* the '--' lines of an excerpt
Dividers(excerpt) == { i \in 1..Len(excerpt) : excerpt[i] = <<"--">> }

\* C26: the excerpt of the type checker's output is, for each of the first
\* 5 lines beginning with 'Error:', in output order, the line before it (if
\* any), the line and the up to two lines after it, a '--' line between one
\* window and the next; so it has at most 5 windows and 20 content lines.
C26_ExcerptWindows ==
    (pc \in {"ret", "done"} /\ result.svelte_check.hasOutput) =>
        LET text == pt.svelteCheckOutput
            excerpt == result.svelte_check.output
            k == Cardinality(ErrorLineIdx(text))
        IN /\ excerpt = ExcerptOf(text)
           /\ k >= 1 => Cardinality(Dividers(excerpt)) + 1 = (IF k < 5 THEN k ELSE 5)
           /\ Cardinality(Dividers(excerpt)) + 1 <= 5
           /\ Len(excerpt) - Cardinality(Dividers(excerpt)) <= 20

\* six error lines: five windows are kept
C26_Witness ==
    /\ pc = "ret"
    /\ result.svelte_check.hasOutput
    /\ Cardinality(ErrorLineIdx(pt.svelteCheckOutput)) = 6
    /\ Cardinality(Dividers(result.svelte_check.output)) = 4

\* the number of times a word occurs in a text
Occurrences(text, word) ==
    Cardinality({ <<i, j>> \in (1..Len(text)) \X (1..3) :
                    j <= Len(text[i]) /\ text[i][j] = word })

\* C27: the counts of a tool are determined by its raw output, whatever
\* the exit codes: the type checker's counts are the numbers of 'Error:'
\* and 'Warning:' markers in its output, and the linter's counts are the
\* numbers of the summary line of its output, also when it exited 0.
C27_CountsFromOutputAlone ==
    (pc \in {"ret", "done"} /\ result.svelte_check.present) =>
        /\ result.svelte_check.error_count = Occurrences(pt.svelteCheckOutput, "Error:")
        /\ result.svelte_check.warning_count = Occurrences(pt.svelteCheckOutput, "Warning:")
        /\ pt.eslintOutput[1] = EsSummary =>
              (result.eslint.error_count = 2 /\ result.eslint.warning_count = 0)
        /\ pt.eslintOutput[1] = EsWarnSummary =>
              (result.eslint.error_count = 0 /\ result.eslint.warning_count = 2)

\* C28: the log is append-only and keyed by calendar day: every step that
\* writes log lines appends them to what was written before, and the file
\* it appends them to is the one named for the calendar day of the writing,
\* also when the date has changed since the process started.
C28_LogKeyedByDayOfWriting ==
    [][ logLines' # logLines =>
          /\ Len(logLines') > Len(logLines)
          /\ SubSeq(logLines', 1, Len(logLines)) = logLines
          /\ LOG_FILE' = Day(now') ]_vars

\* the wrapper found nothing to run the hook with
NoExecutor ==
    ~sh.tsx /\ ~sh.tsnode /\ ~sh.tsc /\ (~sh.jsExists \/ sh.tsNewer)

\* C29: the wrapper runs the hook with tsx if there is tsx, else with
\* ts-node if there is ts-node, else as compiled JavaScript with node; it
\* compiles only in the last case, only when the .js is missing or older
\* than the .ts, and once; when there is neither tsx nor ts-node nor, for
\* a needed compile, tsc, it writes to standard error and exits 1 and the
\* hook does not run; in every other case the executor gets all the
\* arguments of the wrapper, unchanged.
C29_WrapperSelectsExecutor ==
    /\ [](sh.at \in {"hook", "exit"} =>
            /\ sh.tsx => sh.executor = "tsx"
            /\ (~sh.tsx /\ sh.tsnode) => sh.executor = "ts-node"
            /\ (~sh.tsx /\ ~sh.tsnode /\ ~NoExecutor) => sh.executor = "node"
            /\ sh.executor \in {"tsx", "ts-node"} => sh.compiles = 0
            /\ sh.compiles <= 1
            /\ NoExecutor <=> sh.executor = "none"
            /\ NoExecutor =>
                  (sh.at = "exit" /\ sh.stderr /\ sh.status = 1 /\ pc = "main"
                   /\ sh.compiles = 0)
            /\ ~NoExecutor => sh.argv = args
            /\ (sh.at = "hook" /\ pc # "main") =>
                  (mode = "cli" <=> Len(args) > 0))
    /\ [][ sh'.compiles # sh.compiles =>
            /\ ~sh.jsExists \/ sh.tsNewer
            /\ ~sh.tsx /\ ~sh.tsnode /\ sh.tsc
            /\ sh'.compiles = sh.compiles + 1 ]_vars

\* no tsx, no ts-node, a stale .js: one compile, then node with both
\* arguments, and the hook in CLI mode
C29_Witness ==
    /\ sh.at = "hook"
    /\ sh.executor = "node"
    /\ sh.compiles = 1
    /\ Len(sh.argv) = 2
    /\ sh.argv = args
    /\ mode = "cli"

\* the case without any executor
C29_NoExecutorReached == sh.at = "exit" /\ sh.executor = "none" /\ sh.status = 1

\* the payloads of the early outcomes: nothing, text that is no JSON, a
\* request of another tool, an edit request without file_path (absent,
\* null, empty), an edit request on a path without a supported suffix
EarlyPayloads ==
    { <<>> }
    \cup { SubSeq(Request(WriteTok, TStr(P_a_ts)), 1, k) : k \in {1, 4, 12} }
    \cup { Request(TStr(<<"Read">>), TStr(p)) : p \in {P_a_ts, P_x_png, P_gone_ts} }
    \cup { Request(WriteTok, TNull), Request(WriteTok, TStr(<<>>)),
           <<LB, TStr(K_tool_name), Colon, WriteTok, Comma,
             TStr(K_tool_input), Colon, LB, RB, RB>> }
    \cup { Request(TStr(t), TStr(p)) :
             t \in EditTools, p \in {P_x_png, P_gone_png, P_src} }

\* C30: in hook mode a run on empty input, on invalid JSON, on a request of
\* a tool other than Write / Edit / MultiEdit, on an edit request without
\* file_path or on one with an unsupported suffix never changes the
\* dependency cache and never starts a process: no probe, no type checker,
\* no linter.
C30_EarlyOutcomesTouchNothing ==
    /\ []((mode = "hook" /\ inputData \o Flatten(stdinRest) \in EarlyPayloads) =>
            /\ Spawns = <<>>
            /\ running = {}
            /\ dependencyCheckCache = NoCache
            /\ pc \in {"main", "hook_read", "done"}
            /\ ~fault)
    /\ [][ (inputData \o Flatten(stdinRest) \in EarlyPayloads) =>
            /\ dependencyCheckCache' = dependencyCheckCache
            /\ running' = running
            /\ Spawns' = Spawns ]_vars

\* an edit request without file_path and one on a picture, both ended
C30_Witness ==
    /\ Done
    /\ mode = "hook"
    /\ inputData \in { Request(WriteTok, TNull),
                        Request(TStr(<<"Edit">>), TStr(P_x_png)) }
    /\ Len(StdoutDocs) = 1
    /\ Spawns = <<>>
    /\ dependencyCheckCache = NoCache

(***************************************************************************)
(* C31 .. C38                                                              *)
(***************************************************************************)
\* edit requests without a usable file_path: null, the empty string, no
\* file_path member, tool_input null, no tool_input member
NoFilePathRequests ==
    { Request(TStr(t), fp) : t \in EditTools, fp \in {TNull, TStr(<<>>)} }
    \cup { <<LB, TStr(K_tool_name), Colon, WriteTok, Comma,
             TStr(K_tool_input), Colon, LB, RB, RB>>,
           <<LB, TStr(K_tool_name), Colon, WriteTok, Comma,
             TStr(K_tool_input), Colon, TNull, RB>>,
           <<LB, TStr(K_tool_name), Colon, WriteTok, RB>> }

\* C31: in hook mode a Write / Edit / MultiEdit request without file_path,
\* or with an empty one, ends with the one record {error: 'No file_path
\* found in tool input'} and exit code 0: no skip record, no block.
C31_NoFilePathIsAnErrorRecord ==
    (Done /\ mode = "hook" /\ inputData \in NoFilePathRequests) =>
        /\ exitCode = 0
        /\ ~fault
        /\ Len(StdoutDocs) = 1
        /\ StdoutDocs[1].error = "No file_path found in tool input"
        /\ ~StdoutDocs[1].skipped
        /\ StdoutDocs[1].decision = "absent"
        /\ StdoutDocs[1].success = "absent"
        /\ StdoutDocs[1].reason = <<>>
        /\ Spawns = <<>>

\* a Write request whose file_path is the empty string
C31_Witness ==
    /\ Done
    /\ mode = "hook"
    /\ inputData = Request(WriteTok, TStr(<<>>))
    /\ exitCode = 0
    /\ Len(StdoutDocs) = 1
    /\ StdoutDocs[1].error = "No file_path found in tool input"

\* the messages of the log
LogMessages == { logLines[i].msg : i \in 1..Len(logLines) }

\* C32: in hook mode, when standard input ends without any data, the run
\* ends with the one record {error: 'No input received'} and exit code 0,
\* and JSON.parse is not reached: neither the line that precedes it nor
\* the line of its failure is logged.
C32_EmptyInputExits0 ==
    (Done /\ mode = "hook" /\ inputData = <<>>) =>
        /\ exitCode = 0
        /\ ~fault
        /\ Len(StdoutDocs) = 1
        /\ StdoutDocs[1].error = "No input received"
        /\ StdoutDocs[1].decision = "absent"
        /\ ~StdoutDocs[1].skipped
        /\ "Received input" \notin LogMessages
        /\ "Failed to parse JSON input" \notin LogMessages
        /\ "No input received from stdin" \in LogMessages

C32_Witness ==
    /\ Done
    /\ mode = "hook"
    /\ inputData = <<>>
    /\ stdinRest = <<>>
    /\ exitCode = 0
    /\ Len(StdoutDocs) = 1

\* C33: no document written to standard output has decision 'allow'; a
\* document has a decision member only if it is the block response of a
\* hook run, which ends with exit code 2; a hook run that ends with exit
\* code 0 has written one document without a decision member, and a hook
\* run whose document has no decision ends with exit code 0, or 1 when
\* the input was no JSON.
C33_NoAllowDecision ==
    /\ \A i \in 1..Len(StdoutDocs) :
          LET d == StdoutDocs[i] IN
          /\ d.decision # "allow"
          /\ d.decision \in {"absent", "block"}
          /\ d.decision = "block" =>
                /\ mode = "hook"
                /\ d.success = "absent"
                /\ ~d.skipped
                /\ d.reason # <<>>
                /\ Done => exitCode = 2
    /\ (Done /\ mode = "hook" /\ exitCode = 0) =>
          /\ Len(StdoutDocs) = 1
          /\ StdoutDocs[1].decision = "absent"
    /\ (Done /\ mode = "hook" /\ exitCode = 2) =>
          /\ Len(StdoutDocs) = 1
          /\ StdoutDocs[1].decision = "block"
    /\ (Done /\ mode = "hook" /\ Len(StdoutDocs) = 1
             /\ StdoutDocs[1].decision = "absent" /\ exitCode # 0) =>
          /\ exitCode = 1
          /\ StdoutDocs[1].error = "Invalid JSON input"

\* a hook run whose checks passed: the success record, without decision
C33_Witness ==
    /\ Done
    /\ mode = "hook"
    /\ exitCode = 0
    /\ Len(StdoutDocs) = 1
    /\ StdoutDocs[1].success = "true"
    /\ StdoutDocs[1].decision = "absent"
    /\ Len(Spawns) = 5

\* what was written to standard error, in order
StderrTexts ==
    LET es == SelectSeq(events, LAMBDA e : e.ch = "stderr")
    IN [ i \in 1..Len(es) |-> es[i].what ]

\* C34: a failed preflight verdict is cached like a successful one: while
\* less than 5 minutes have passed since it was stored, checkDependencies
\* returns it, with its message, without starting a probe and without
\* touching the cache, whatever a probe would find now; so a run whose
\* cached failure of minute 0 is still there at its end has probed in its
\* first call only and has reported the same failure for both targets.
C34_FailedVerdictIsCached ==
    /\ []((Done /\ mode = "cli" /\ Len(args) = 2
              /\ dependencyCheckCache.set
              /\ dependencyCheckCache.result.hasErrors
              /\ dependencyCheckCache.timestamp = 0) =>
            /\ now < CACHE_DURATION
            /\ Len(ProbeSpawns) = Len(Spawns)
            /\ Len(ProbeSpawns) \in 1..3
            /\ \A i \in 1..Len(ProbeSpawns) :
                  ProbeSpawns[i].n = (IF i = Len(ProbeSpawns) THEN 1 ELSE 0)
            /\ Len(StdoutDocs) = 2
            /\ \A i \in 1..2 :
                  /\ StdoutDocs[i].success = "false"
                  /\ StdoutDocs[i].error = MissingDepsError
            /\ Len(StderrTexts) = 2
            /\ StderrTexts[1] = StderrTexts[2]
            /\ StderrTexts[1] = dependencyCheckCache.result.message
            /\ exitCode = 1)
    /\ [][ (/\ pc = "pt_deps"
            /\ dependencyCheckCache.set
            /\ dependencyCheckCache.result.hasErrors
            /\ now - dependencyCheckCache.timestamp < CACHE_DURATION) =>
              /\ pc' = "pt_classify"
              /\ pt'.depCheck = dependencyCheckCache.result
              /\ pt'.depCheck.hasErrors
              /\ events' = events
              /\ running' = {}
              /\ dependencyCheckCache' = dependencyCheckCache ]_vars

\* four minutes after `which pnpm` failed the second call is answered from
\* the cache
C34_Witness ==
    /\ mode = "cli"
    /\ argIdx = 2
    /\ pc = "pt_classify"
    /\ now = CACHE_DURATION - 1
    /\ dependencyCheckCache.timestamp = 0
    /\ dependencyCheckCache.result.hasErrors
    /\ pt.depCheck = dependencyCheckCache.result
    /\ Len(ProbeSpawns) = 1
    /\ ProbeSpawns[1].n = 1

\* five minutes after a failure the second call probes again
C34_ExpiryReached ==
    /\ mode = "cli"
    /\ argIdx = 2
    /\ pc = "probe_pnpm"
    /\ now = CACHE_DURATION
    /\ dependencyCheckCache.timestamp = 0
    /\ dependencyCheckCache.result.hasErrors

\* the type checker, the linter of the run threw
TypeCheckThrew ==
    \E i \in 1..Len(events) :
        events[i].ch = "spawn" /\ events[i].what \in TypeCheckCommands
                               /\ events[i].n = 1
LintThrew ==
    \E i \in 1..Len(events) :
        events[i].ch = "spawn" /\ events[i].what = LintCommand /\ events[i].n = 1

\* C35: when the call of the type checker or of the linter threw, the exit
\* code recorded for that tool is not 0, whatever status the exception
\* carried (none and 0 are recorded as 1), and the document of the target
\* has success = false, never true.
C35_FailedInvocationNeverPasses ==
    (mode = "cli" /\ Len(args) = 1) =>
        /\ (TypeCheckThrew /\ pc = "lint") => pt.svelteCheckExitCode \in {1, 127}
        /\ \A i \in 1..Len(StdoutDocs) :
              LET d == StdoutDocs[i] IN
              /\ TypeCheckThrew =>
                    /\ d.success = "false"
                    /\ d.svelte_check.present => d.svelte_check.exit_code \in {1, 127}
              /\ LintThrew =>
                    /\ d.success = "false"
                    /\ d.eslint.present
                    /\ d.eslint.exit_code \in {1, 127}
              /\ d.success = "true" =>
                    \A j \in 1..Len(AnalysisSpawns) : AnalysisSpawns[j].n = 0

\* the type checker passed and the linter threw, leaving nothing on its
\* standard output: exit code 1 is recorded and the target fails
C35_Witness ==
    /\ Done
    /\ mode = "cli"
    /\ Len(args) = 1
    /\ ~TypeCheckThrew
    /\ LintThrew
    /\ Len(StdoutDocs) = 1
    /\ StdoutDocs[1].success = "false"
    /\ StdoutDocs[1].svelte_check.exit_code = 0
    /\ StdoutDocs[1].eslint.exit_code = 1
    /\ StdoutDocs[1].eslint.error_count = 0
    /\ exitCode = 1

\* a type check of the one file was started
SingleFileChecked ==
    \E i \in 1..Len(events) :
        /\ events[i].ch = "spawn"
        /\ events[i].what \in {"pnpm exec tsc --noEmit <target>",
                                "pnpm exec svelte-check (cwd: dirname(target))"}

\* C36: a processTarget call on a .ts target that another process may
\* create or delete meanwhile never ends in an unhandled fault, and when
\* both decisions were taken it has type-checked the single file if and
\* only if it has run the linter.
C36_OneClassificationPerCall ==
    (mode = "cli" /\ args \in { <<P_a_ts>>, <<P_gone_ts>> }) =>
        /\ ~fault
        /\ (Done /\ Len(AnalysisSpawns) >= 1 /\ ~InvocationFailed) =>
              (SingleFileChecked <=> Linted)

\* C37: in a failure record the type checker's error_count and excerpt
\* agree: when error_count = k > 0 the record has a non-empty excerpt of
\* exactly min(k, 5) windows, whatever the output was.
C37_CountAndExcerptAgree ==
    (pc \in {"ret", "done"} /\ result.success = "false"
        /\ result.svelte_check.present /\ result.svelte_check.error_count > 0) =>
        LET k == result.svelte_check.error_count
            excerpt == result.svelte_check.output
        IN /\ result.svelte_check.hasOutput
           /\ excerpt # EmptyText
           /\ Cardinality(Dividers(excerpt)) + 1 = (IF k < 5 THEN k ELSE 5)

\* the part of a block reason names a finding: the section of a tool with
\* its error count and excerpt, or the general error message of a result
NamesAFinding(part) ==
    \/ part.p \in {"TypeScript Errors", "ESLint Errors"} /\ part.n > 0
    \/ part.p \in {MissingDepsError, RunFailedError}

\* C38: the reason of every block response names a finding: it has the
\* section of a tool with a nonzero error count, or the general error
\* message of the result; no block is issued on a reason without any.
C38_BlockNamesAFinding ==
    \A i \in 1..Len(StdoutDocs) :
        StdoutDocs[i].decision = "block" =>
            \E j \in 1..Len(StdoutDocs[i].reason) :
                NamesAFinding(StdoutDocs[i].reason[j])

=============================================================================
